---------------------------- MODULE Spec2Model ----------------------------
(***************************************************************************)
(* A model of masteryunfo/transfer-file: the room identifier codec, the    *)
(* signaling relay routes over the key-value store, the bootstrap of the   *)
(* two pages and the chunked transfer over the data channel.               *)
(*                                                                         *)
(* Strings that the code indexes (room ids) are sequences of one-character *)
(* strings.  File contents are byte ranges <<from, to>> of the original    *)
(* file, so a reassembled file is right exactly when its ranges lie end to *)
(* end from 0 to the file's size.  Fields whose names start with h are     *)
(* history: they record what a handler saw and are read by the properties  *)
(* only.                                                                   *)
(***************************************************************************)
EXTENDS Integers, Sequences, FiniteSets, TLC

VARIABLES
    codecCall,      \* the codec call under test: [op, arg]
    codecResult,    \* its result: [done, valid, id]
    kv,             \* the key-value store: kv[id][field] = [val, ttl]
    reqs,           \* the relay's route handlers in progress, one per slot
    written,        \* history: the data last written under each role key
    phone,          \* the answerer page (PhoneClient): state, refs, sendFile
    computer,       \* the offerer page (ComputerPage): state, refs, handlers
    chan            \* the data channel between the two pages

codecVars == <<codecCall, codecResult>>
relayVars == <<kv, reqs, written>>
pageVars == <<phone, computer, chan>>

vars == <<codecCall, codecResult, kv, reqs, written, phone, computer, chan>>

\* what an action of one component leaves alone
notRelayVars == <<codecVars, pageVars>>
notCodecVars == <<relayVars, pageVars>>
notPageVars == <<codecVars, relayVars>>

(***************************************************************************)
(* Room identifier codec (lib/room.ts).                                    *)
(***************************************************************************)

\* ROOM_ALPHABET = "ABCDEFGHJKLMNPQRSTUVWXYZ0123456789"
ROOM_ALPHABET ==
    << "A", "B", "C", "D", "E", "F", "G", "H", "J", "K", "L", "M",
       "N", "P", "Q", "R", "S", "T", "U", "V", "W", "X", "Y", "Z",
       "0", "1", "2", "3", "4", "5", "6", "7", "8", "9" >>

\* the character class [A-Z0-9] of ROOM_ID_REGEX
RegexClassUpperAlnum ==
    { "A", "B", "C", "D", "E", "F", "G", "H", "I", "J", "K", "L", "M",
      "N", "O", "P", "Q", "R", "S", "T", "U", "V", "W", "X", "Y", "Z",
      "0", "1", "2", "3", "4", "5", "6", "7", "8", "9" }

\* the {6} of ROOM_ID_REGEX
ROOM_ID_REGEX_LEN == 6

\* new Uint8Array(6)
ROOM_ID_BYTES == 6

\* a Uint8Array element
ByteValues == 0..255

\* ROOM_ID_REGEX.test(roomId) with ROOM_ID_REGEX = /^[A-Z0-9]{6}$/
isValidRoomId(roomId) ==
    /\ Len(roomId) = ROOM_ID_REGEX_LEN
    /\ \A i \in 1..Len(roomId) : roomId[i] \in RegexClassUpperAlnum

\* generateRoomId indexing the alphabet with the byte itself
generateRoomId_NoModulo(bytes) ==
    [i \in 1..Len(bytes) |->
        IF bytes[i] + 1 \in DOMAIN ROOM_ALPHABET
        THEN ROOM_ALPHABET[bytes[i] + 1]
        ELSE "undefined"]

\* result += ROOM_ALPHABET[bytes[i] % ROOM_ALPHABET.length], i = 0..5
generateRoomId(bytes) ==
    [i \in 1..Len(bytes) |-> ROOM_ALPHABET[(bytes[i] % Len(ROOM_ALPHABET)) + 1]]

\* The codec's calls: the input is drawn at the start, the call applies the
\* function.

\* the characters candidates are made of, and their greatest length
CandChars == {"A", "I", "O", "9", "a"}
MaxCandLen == 6

RECURSIVE SeqsUpTo(_, _)
SeqsUpTo(S, n) ==
    IF n = 0 THEN { <<>> }
    ELSE LET shorter == SeqsUpTo(S, n - 1) IN
         shorter \cup { Append(q, c) : q \in { x \in shorter : Len(x) = n - 1 }, c \in S }

\* every string up to the greatest length, and some that are one longer
\* than a room id
Candidates ==
    SeqsUpTo(CandChars, MaxCandLen)
        \cup { Append(q, "A") : q \in [1..ROOM_ID_REGEX_LEN -> {"A", "9"}] }

\* the bytes crypto.getRandomValues may give: every combination of a few
\* values, and every byte value in all six places
ByteSamples == {0, 8, 13, 33, 34, 255}
ByteDraws ==
    [1..ROOM_ID_BYTES -> ByteSamples]
        \cup { [i \in 1..ROOM_ID_BYTES |-> b] : b \in ByteValues }

NoCodecResult == [done |-> FALSE, valid |-> FALSE, id |-> <<>>]

InitCodecCalls ==
    /\ codecCall \in
          { [op |-> "validate", arg |-> c] : c \in Candidates }
              \cup { [op |-> "generate", arg |-> b] : b \in ByteDraws }
    /\ codecResult = NoCodecResult

ValidateCall ==
    /\ codecCall.op = "validate" /\ ~codecResult.done
    /\ codecResult' = [NoCodecResult EXCEPT !.done = TRUE,
                                            !.valid = isValidRoomId(codecCall.arg)]
    /\ UNCHANGED <<codecCall, notCodecVars>>

GenerateCall ==
    /\ codecCall.op = "generate" /\ ~codecResult.done
    /\ codecResult' = [NoCodecResult EXCEPT !.done = TRUE,
                                            !.id = generateRoomId(codecCall.arg)]
    /\ UNCHANGED <<codecCall, notCodecVars>>

\* C9 as stated: validate is true exactly for the 6-character strings over
\* the 34-symbol alphabet (no I, no O).
C9_ValidateIffUnambiguous ==
    (codecCall.op = "validate" /\ codecResult.done) =>
        (codecResult.valid <=>
            /\ Len(codecCall.arg) = 6
            /\ \A i \in 1..Len(codecCall.arg) :
                  \E k \in 1..Len(ROOM_ALPHABET) : codecCall.arg[i] = ROOM_ALPHABET[k])

\* C10: whatever the 6 random bytes, the generated id passes isValidRoomId,
\* has 6 characters and contains neither I nor O.
C10_GeneratedIdValid ==
    (codecCall.op = "generate" /\ codecResult.done) =>
        /\ isValidRoomId(codecResult.id)
        /\ Len(codecResult.id) = 6
        /\ \A i \in 1..Len(codecResult.id) : codecResult.id[i] \notin {"I", "O"}

\* C10 witness: an id generated from bytes beyond the alphabet's length
C10_Witness ==
    /\ codecCall.op = "generate" /\ codecResult.done
    /\ \E i \in 1..ROOM_ID_BYTES : codecCall.arg[i] = 255
    /\ \E i \in 1..ROOM_ID_BYTES : codecCall.arg[i] = 34 /\ codecResult.id[i] = "A"

(***************************************************************************)
(* JavaScript values as the relay sees them.  A value is a sequence of     *)
(* strings: <<"txt">> \o tokens is a JS string holding that text, and     *)
(* <<"val">> \o tokens is the non-string value the JSON tokens denote      *)
(* (an object, an array, null, a number).                                  *)
(***************************************************************************)

JNull == <<"val", "null">>
JText(tokens) == <<"txt">> \o tokens
JVal(tokens) == <<"val">> \o tokens
Tokens(v) == Tail(v)
IsText(v) == v[1] = "txt"
\* an RTCSessionDescriptionInit {type, sdp}
Desc(type, sdp) == JVal(<<"{", "type", type, "sdp", sdp, "}">>)

Punct == {"{", "}", "[", "]"}

RECURSIVE ValueEnd(_, _), MembersEnd(_, _)
\* the index of the last token of the JSON value that starts at t[i]; 0 if
\* no well-formed value starts there
ValueEnd(t, i) ==
    IF i > Len(t) THEN 0
    ELSE IF t[i] = "{" THEN MembersEnd(t, i + 1)
    ELSE IF t[i] = "[" THEN (IF i + 1 <= Len(t) /\ t[i + 1] = "]" THEN i + 1 ELSE 0)
    ELSE IF t[i] \in Punct THEN 0
    ELSE i
\* t[j] is a member's key or the closing brace of the object
MembersEnd(t, j) ==
    IF j > Len(t) THEN 0
    ELSE IF t[j] = "}" THEN j
    ELSE IF t[j] \in Punct THEN 0
    ELSE LET e == ValueEnd(t, j + 1) IN
         IF e = 0 THEN 0 ELSE MembersEnd(t, e + 1)

JSONWellFormed(t) == Len(t) > 0 /\ ValueEnd(t, 1) = Len(t)

\* JSON.stringify(value) of a non-string value: its JSON text
JSONstringify(v) == JText(Tokens(v))

JThrow == <<"throw">>
\* JSON.parse(text): the value, or JThrow for a SyntaxError
JSONparse(text) ==
    IF JSONWellFormed(Tokens(text)) THEN JVal(Tokens(text)) ELSE JThrow

\* !value
Falsy(v) == v = JNull \/ v = JText(<<>>) \/ v = JVal(<<"0">>)
\* typeof value === "object" (null included, as in JavaScript)
TypeofObject(v) == ~IsText(v) /\ (v = JNull \/ v[2] \in {"{", "["})

RECURSIVE FindMember(_, _, _)
\* the value of member `key` of the object whose members start at t[j]
FindMember(t, j, key) ==
    IF j > Len(t) \/ t[j] = "}" THEN JNull
    ELSE LET e == ValueEnd(t, j + 1) IN
         IF t[j] = key THEN JVal(SubSeq(t, j + 1, e))
         ELSE FindMember(t, e + 1, key)

\* value?.key ?? null
MemberOrNull(v, key) ==
    IF v = JNull \/ IsText(v) \/ v[2] # "{" THEN JNull
    ELSE FindMember(Tokens(v), 2, key)


(***************************************************************************)
(* The key-value store (@vercel/kv): get(key), set(key, value, {ex}).      *)
(* A key's ttl is the number of seconds it has left; 0 is an absent key.   *)
(***************************************************************************)

\* const ROOM_TTL_SECONDS = 300
ROOM_TTL_SECONDS == 300

\* how many clock ticks make one TTL window
TicksPerTTL == 3
TickSeconds == ROOM_TTL_SECONDS \div TicksPerTTL

\* the route handlers that may be in progress at once
MaxRequests == 1
\* the clock ticks one handler's run may span: a handler is far quicker
\* than a tick is long
MaxTicksPerRequest == 1

\* the values crypto.getRandomValues is drawn from: in the runs of the
\* whole relay every draw gives the same id, in the runs of room creation
\* the draws give two ids
RelayDraws == { <<0, 0, 0, 0, 0, 0>>, <<34, 0, 0, 0, 0, 0>> }
CreateDraws == { <<0, 0, 0, 0, 0, 0>>, <<34, 0, 0, 0, 0, 0>>, <<0, 0, 0, 0, 0, 1>> }

GeneratedIds == { generateRoomId(b) : b \in RelayDraws \cup CreateDraws }

\* the room ids requests are made with: the generated ones, one the
\* generator cannot produce, and malformed ones
RequestIds ==
    GeneratedIds \cup
    { <<"A", "B", "C", "D", "E", "I">>, <<"A", "B", "C">>,
      <<"a", "a", "a", "a", "a", "a">> }

StoreIds == { id \in RequestIds : isValidRoomId(id) }
Fields == {"exists", "offer", "answer", "legacy"}
Roles == {"offer", "answer"}

Absent == [val |-> JNull, ttl |-> 0]

kvGet(id, field) == IF kv[id][field].ttl > 0 THEN kv[id][field].val ELSE JNull

\* kv.set(key, value, { ex: ROOM_TTL_SECONDS })
kvSet(store, id, field, value) ==
    [store EXCEPT ![id][field] = [val |-> value, ttl |-> ROOM_TTL_SECONDS]]

\* what kv.get hands to the caller: the stored string, or the value it
\* deserializes to when the client's automatic deserialization parses it
Delivered(v, deser) ==
    IF deser /\ IsText(v) /\ JSONparse(v) # JThrow THEN JSONparse(v) ELSE v

(***************************************************************************)
(* The relay's route handlers.  A handler runs from one store operation    *)
(* it awaits to the next; other handlers and the clock run in between.     *)
(***************************************************************************)

Slots == 1..MaxRequests

NoBody == [ok |-> TRUE, type |-> "", data |-> JNull]
NoResp == [status |-> 0, roomId |-> <<>>, offer |-> JNull, answer |-> JNull]
NotWritten == <<"none">>

IdleReq ==
    [ op |-> "none", client |-> "net", pc |-> "idle", ticks |-> 0,
      id |-> <<>>, existsKeyId |-> <<>>,
      attempt |-> 0, body |-> NoBody, exists |-> FALSE, resp |-> NoResp,
      \* history, read by the properties only
      hRetryOnFree |-> FALSE, hLiveAtExit |-> FALSE, hWrote |-> FALSE,
      hBodyValid |-> FALSE,
      hExistsLive |-> FALSE, hExpect |-> [r \in Roles |-> NotWritten],
      hKeyLive |-> [r \in Roles |-> FALSE] ]

\* a request is taken by the first slot whose handler is not in progress
NoResponsePending == \A s \in 1..MaxRequests : reqs[s].pc # "done"

SlotFree(s) ==
    /\ NoResponsePending
    /\ reqs[s].pc = "idle"
    /\ \A t \in 1..(s - 1) : reqs[t].pc # "idle"

\* the response leaves the relay for a client outside the two pages: the
\* handler's slot is free again
Deliver(s) ==
    /\ reqs[s].pc = "done" /\ reqs[s].client = "net"
    /\ reqs' = [reqs EXCEPT ![s] = IdleReq]
    /\ UNCHANGED <<kv, written, notRelayVars>>

\* new Response(..., { status }): the handler ends
Respond(r, status) ==
    [r EXCEPT !.pc = "done", !.body = NoBody,
              !.resp = [NoResp EXCEPT !.status = status]]

\* body.type is a role and body.data is a non-null object
BodyValid(b) == b.ok /\ b.type \in Roles /\ ~Falsy(b.data) /\ TypeofObject(b.data)

\* the request bodies a publish is made with: descriptions under either
\* role, a type that is no role, data that is null or no object, and a
\* body that is not JSON
Bodies ==
    { [ok |-> TRUE, type |-> "offer", data |-> Desc("offer", "v1")],
      [ok |-> TRUE, type |-> "offer", data |-> Desc("offer", "v2")],
      [ok |-> TRUE, type |-> "answer", data |-> Desc("answer", "v2")],
      [ok |-> TRUE, type |-> "bogus", data |-> Desc("offer", "v1")],
      [ok |-> TRUE, type |-> "offer", data |-> JNull],
      [ok |-> TRUE, type |-> "answer", data |-> JText(<<"hello">>)],
      [ok |-> FALSE, type |-> "", data |-> JNull] }

MaxCreateRetries == 5

\* POST /api/signaling/create, up to the first kv.get: the first candidate
CreateRequest(bytes) ==
    [IdleReq EXCEPT !.op = "create", !.pc = "loop",
                    !.id = generateRoomId(bytes),
                    !.existsKeyId = generateRoomId(bytes)]

CreateStart(s, bytes) ==
    /\ SlotFree(s)
    /\ reqs' = [reqs EXCEPT ![s] = CreateRequest(bytes)]
    /\ UNCHANGED <<kv, written, notRelayVars>>

\* one evaluation of `(await kv.get(existsKey)) && attempt < 5` and, when
\* it holds, one run of the loop body
CreateLoop(s, bytes) ==
    LET r == reqs[s]
        found == ~Falsy(kvGet(r.existsKeyId, "exists"))
        candidateLive == kv[r.id]["exists"].ttl > 0
    IN  /\ NoResponsePending
        /\ r.op = "create" /\ r.pc = "loop"
        /\ reqs' = [reqs EXCEPT ![s] =
              IF found /\ r.attempt < MaxCreateRetries
              THEN [r EXCEPT !.id = generateRoomId(bytes),
                             !.attempt = @ + 1,
                             !.hRetryOnFree = @ \/ ~candidateLive]
              ELSE [r EXCEPT !.pc = "set", !.hLiveAtExit = candidateLive]]
        /\ UNCHANGED <<kv, written, notRelayVars>>

\* await kv.set(`room:${roomId}:exists`, "1", { ex }); return { roomId }
CreateSet(s) ==
    LET r == reqs[s] IN
    /\ NoResponsePending
    /\ r.op = "create" /\ r.pc = "set"
    /\ kv' = kvSet(kv, r.id, "exists", JText(<<"1">>))
    /\ reqs' = [reqs EXCEPT ![s] =
          [r EXCEPT !.pc = "done", !.resp = [NoResp EXCEPT !.status = 200, !.roomId = r.id]]]
    /\ UNCHANGED <<written, notRelayVars>>

\* PublishRequest without the `if (!exists)` answer
PublishRequest_NoExistsCheck(id, body) ==
    LET r == [IdleReq EXCEPT !.op = "publish", !.id = id, !.body = body,
                             !.hBodyValid = BodyValid(body)] IN
    IF ~isValidRoomId(id) THEN Respond(r, 400)
    ELSE [r EXCEPT !.pc = "body", !.exists = TRUE,
                   !.hExistsLive = kv[id]["exists"].ttl > 0]

\* POST /api/signaling/[roomId], up to `await kv.get(existsKey)`
PublishRequest(id, body) ==
    LET r == [IdleReq EXCEPT !.op = "publish", !.id = id, !.body = body,
                             !.hBodyValid = BodyValid(body)] IN
    IF ~isValidRoomId(id) THEN Respond(r, 400)
    ELSE IF Falsy(kvGet(id, "exists"))
         THEN Respond([r EXCEPT !.hExistsLive = kv[id]["exists"].ttl > 0], 404)
         ELSE [r EXCEPT !.pc = "body", !.exists = TRUE,
                        !.hExistsLive = kv[id]["exists"].ttl > 0]

PublishStart(s, id, body) ==
    /\ SlotFree(s)
    /\ reqs' = [reqs EXCEPT ![s] = PublishRequest(id, body)]
    /\ UNCHANGED <<kv, written, notRelayVars>>

\* request.json(), the payload checks and kv.set(key, JSON.stringify(data))
PublishSetRole(s) ==
    LET r == reqs[s] b == reqs[s].body IN
    /\ NoResponsePending
    /\ r.op = "publish" /\ r.pc = "body"
    /\ UNCHANGED notRelayVars
    /\ IF ~b.ok
       THEN /\ reqs' = [reqs EXCEPT ![s] = Respond(r, 500)]
            /\ UNCHANGED <<kv, written>>
       ELSE IF b.type \notin Roles \/ Falsy(b.data) \/ ~TypeofObject(b.data)
       THEN /\ reqs' = [reqs EXCEPT ![s] = Respond(r, 400)]
            /\ UNCHANGED <<kv, written>>
       ELSE /\ kv' = kvSet(kv, r.id, b.type, JSONstringify(b.data))
            /\ written' = [written EXCEPT ![r.id][b.type] = b.data]
            /\ reqs' = [reqs EXCEPT ![s] = [r EXCEPT !.pc = "setExists", !.hWrote = TRUE]]

\* await kv.set(existsKey, "1", { ex }); return { ok: true }
PublishSetExists(s) ==
    LET r == reqs[s] IN
    /\ NoResponsePending
    /\ r.op = "publish" /\ r.pc = "setExists"
    /\ kv' = kvSet(kv, r.id, "exists", JText(<<"1">>))
    /\ reqs' = [reqs EXCEPT ![s] = Respond(r, 200)]
    /\ UNCHANGED <<written, notRelayVars>>

\* time passes: every key loses TickSeconds of its ttl and lapses at 0
StoreTick ==
    /\ \A s \in 1..MaxRequests :
          reqs[s].pc # "done" /\ reqs[s].ticks < MaxTicksPerRequest
    /\ \E id \in StoreIds, f \in Fields : kv[id][f].ttl > 0
    /\ kv' = [id \in StoreIds |-> [f \in Fields |->
                IF kv[id][f].ttl > TickSeconds
                THEN [kv[id][f] EXCEPT !.ttl = @ - TickSeconds]
                ELSE Absent]]
    /\ reqs' = [s \in 1..MaxRequests |->
                IF reqs[s].pc = "idle" THEN reqs[s]
                ELSE [reqs[s] EXCEPT !.ticks = @ + 1]]
    /\ UNCHANGED <<written, notRelayVars>>

\* safeParse(value)
safeParse(value) ==
    IF Falsy(value) THEN JNull
    ELSE IF IsText(value)
         THEN (IF JSONparse(value) = JThrow THEN JNull ELSE JSONparse(value))
    ELSE IF TypeofObject(value) THEN value
    ELSE JNull

\* PollField reading the legacy record only
PollField_LegacyOnly(dedicated, legacyValue, role) ==
    MemberOrNull(safeParse(legacyValue), role)

\* PollField reading the dedicated key only
PollField_NoLegacy(dedicated, legacyValue, role) == safeParse(dedicated)

\* safeParse(dedicated) ?? legacy?.[role] ?? null
PollField(dedicated, legacyValue, role) ==
    IF safeParse(dedicated) # JNull THEN safeParse(dedicated)
    ELSE MemberOrNull(safeParse(legacyValue), role)

\* GET /api/signaling/poll/[roomId], up to `await kv.get(existsKey)`
PollRequest(id) ==
    LET r == [IdleReq EXCEPT !.op = "poll", !.id = id] IN
    IF ~isValidRoomId(id) THEN Respond(r, 400)
    ELSE IF Falsy(kvGet(id, "exists"))
         THEN Respond([r EXCEPT !.hExistsLive = kv[id]["exists"].ttl > 0], 404)
         ELSE [r EXCEPT !.pc = "read", !.exists = TRUE,
                        !.hExistsLive = kv[id]["exists"].ttl > 0]

PollStart(s, id) ==
    /\ SlotFree(s)
    /\ reqs' = [reqs EXCEPT ![s] = PollRequest(id)]
    /\ UNCHANGED <<kv, written, notRelayVars>>

\* const response: PollResponse = { offer: ..., answer: ... }
PollResponseOf(offerValue, answerValue, legacyRoom) ==
    [NoResp EXCEPT !.status = 200,
                   !.offer = PollField(offerValue, legacyRoom, "offer"),
                   !.answer = PollField(answerValue, legacyRoom, "answer")]

\* the three kv.get of Promise.all, safeParse and the response
PollRead(s, deser) ==
    LET r == reqs[s]
        offerValue == Delivered(kvGet(r.id, "offer"), deser)
        answerValue == Delivered(kvGet(r.id, "answer"), deser)
        legacyRoom == Delivered(kvGet(r.id, "legacy"), deser)
    IN  /\ NoResponsePending
        /\ r.op = "poll" /\ r.pc = "read"
        /\ reqs' = [reqs EXCEPT ![s] =
              [r EXCEPT !.pc = "done",
                        !.resp = PollResponseOf(offerValue, answerValue, legacyRoom),
                        !.hExpect = written[r.id],
                        !.hKeyLive = [role \in Roles |-> kv[r.id][role].ttl > 0]]]
        /\ UNCHANGED <<kv, written, notRelayVars>>

(***************************************************************************)
(* The poll handler that shares a file with room creation                  *)
(* (create/route.ts, GET): the same checks, then the two role keys read    *)
(* and handed to JSON.parse as they come; it knows no combined record.     *)
(***************************************************************************)

\* JSON.parse(value): a value that is no string is converted to one first,
\* and an object's or an empty array's string is no JSON text
JSONparseCoerced(value) ==
    IF IsText(value) THEN JSONparse(value)
    ELSE IF value[2] \in Punct THEN JThrow
    ELSE value

\* value ? JSON.parse(value) : null
ParseOrNull(value) == IF Falsy(value) THEN JNull ELSE JSONparseCoerced(value)

\* GET of create/route.ts up to `await kv.get(existsKey)`
PollStartStrict(s, id) ==
    /\ SlotFree(s)
    /\ reqs' = [reqs EXCEPT ![s] = [PollRequest(id) EXCEPT !.op = "pollStrict"]]
    /\ UNCHANGED <<kv, written, notRelayVars>>

\* the two kv.get of Promise.all, JSON.parse and the response; an
\* exception that leaves the handler is answered with status 500
PollReadStrict(s, deser) ==
    LET r == reqs[s]
        offer == ParseOrNull(Delivered(kvGet(r.id, "offer"), deser))
        answer == ParseOrNull(Delivered(kvGet(r.id, "answer"), deser))
    IN  /\ NoResponsePending
        /\ r.op = "pollStrict" /\ r.pc = "read"
        /\ reqs' = [reqs EXCEPT ![s] =
              IF offer = JThrow \/ answer = JThrow
              THEN Respond(r, 500)
              ELSE [r EXCEPT !.pc = "done",
                             !.resp = [NoResp EXCEPT !.status = 200,
                                                     !.offer = offer,
                                                     !.answer = answer]]]
        /\ UNCHANGED <<kv, written, notRelayVars>>

(***************************************************************************)
(* Stores as earlier writers may have left them: a description under a     *)
(* role key, the combined record {offer, answer} under `room:${roomId}`,   *)
(* and text that is no JSON.                                               *)
(***************************************************************************)

LegacyBoth ==
    JVal(<<"{", "offer", "{", "type", "offer", "sdp", "v1", "}",
                "answer", "{", "type", "answer", "sdp", "v2", "}", "}">>)
LegacyOfferOnly ==
    JVal(<<"{", "offer", "{", "type", "offer", "sdp", "v1", "}", "}">>)
Unparseable == JText(<<"{", "offer">>)

Stored(value) == [val |-> value, ttl |-> ROOM_TTL_SECONDS]

StoredOffers == {Absent, Stored(JSONstringify(Desc("offer", "v1"))), Stored(Unparseable)}
StoredAnswers == {Absent, Stored(JSONstringify(Desc("answer", "v2"))), Stored(Unparseable)}
StoredLegacy ==
    {Absent, Stored(JSONstringify(LegacyBoth)), Stored(JSONstringify(LegacyOfferOnly)),
     Stored(Unparseable)}

\* the room the seeded stores hold
SeededId == generateRoomId(<<0, 0, 0, 0, 0, 0>>)

SeededInit ==
    /\ \E o \in StoredOffers, a \in StoredAnswers, l \in StoredLegacy :
          kv = [id \in StoreIds |-> [f \in Fields |->
                  IF id # SeededId THEN Absent
                  ELSE IF f = "exists" THEN Stored(JText(<<"1">>))
                  ELSE IF f = "offer" THEN o
                  ELSE IF f = "answer" THEN a
                  ELSE l]]
    /\ reqs = [s \in Slots |-> IdleReq]
    /\ written = [id \in StoreIds |-> [r \in Roles |-> NotWritten]]

RelayInit ==
    /\ kv = [id \in StoreIds |-> [f \in Fields |-> Absent]]
    /\ reqs = [s \in Slots |-> IdleReq]
    /\ written = [id \in StoreIds |-> [r \in Roles |-> NotWritten]]

CodecOff == codecCall = [op |-> "none", arg |-> <<>>] /\ codecResult = NoCodecResult




(***************************************************************************)
(* The data channel and the sender (PhoneClient.tsx, sendFile).            *)
(*                                                                         *)
(* chan.wire holds the messages the sender has handed to send() and the    *)
(* transport has not yet transmitted: their bytes are the channel's        *)
(* bufferedAmount.  chan.sent is the history of every message handed to    *)
(* send().  A binary frame is the byte range <<from, to>> of the file it   *)
(* carries; a control message is its JSON text.                            *)
(***************************************************************************)

CHUNK_SIZE == 256 * 1024
BUFFERED_HIGH_WATER_MARK == 16 * 1024 * 1024
BUFFERED_LOW_WATER_MARK == 4 * 1024 * 1024

\* the largest file of the transfer runs, in chunks
MaxChunks == 2
\* selectedFile.size of the files sent; NoFile is selectedFile === null
NoFile == -1
\* chunkCount % 8 === 0
YIELD_EVERY == 8
FileSizes ==
    {0, 11, CHUNK_SIZE - 1, CHUNK_SIZE + 1, YIELD_EVERY * CHUNK_SIZE + 11}
        \cup { k * CHUNK_SIZE : k \in 1..MaxChunks }

BinaryFrame(from, to) == [bin |-> TRUE, text |-> <<>>, from |-> from, to |-> to]
TextMessage(text) == [bin |-> FALSE, text |-> text, from |-> 0, to |-> 0]

\* JSON.stringify({type: "meta", name, size, mime})
MetaMessage(size) ==
    TextMessage(JSONstringify(JVal(<<"{", "type", "meta", "name", "file.bin",
                                     "size", ToString(size),
                                     "mime", "application/octet-stream", "}">>)))
\* JSON.stringify({type: "done"})
DoneMessage == TextMessage(JSONstringify(JVal(<<"{", "type", "done", "}">>)))

\* the bytes a message adds to bufferedAmount (a control message counts one
\* byte per token of its text)
byteLength(m) == IF m.bin THEN m.to - m.from ELSE Len(Tokens(m.text))

RECURSIVE bufferedAmount(_)
bufferedAmount(wire) ==
    IF wire = <<>> THEN 0 ELSE byteLength(Head(wire)) + bufferedAmount(Tail(wire))

NoChannel == [readyState |-> "none", wire |-> <<>>, sent |-> <<>>]
\* the channel of pc.createDataChannel("bootstrap"), before the connection
ConnectingChannel == [readyState |-> "connecting", wire |-> <<>>, sent |-> <<>>]
OpenChannel == [readyState |-> "open", wire |-> <<>>, sent |-> <<>>]

\* channel.send(m) on an open channel
send(c, m) == [c EXCEPT !.wire = Append(@, m), !.sent = Append(@, m)]

PhoneIdle ==
    [status |-> "idle", error |-> "", selectedFile |-> NoFile, bytesSent |-> 0,
     roomInput |-> <<>>, pcRef |-> FALSE, abortRef |-> FALSE,
     channelRef |-> FALSE, pc |-> "idle", polls |-> 0,
     local |-> JNull, remote |-> JNull, openSeen |-> FALSE, closeSeen |-> FALSE,
     sf |-> "idle", offset |-> 0, chunkCount |-> 0,
     \* the signal of the attempt's AbortController has fired
     aborted |-> FALSE,
     hFinished |-> FALSE, hResumed |-> FALSE, hTornDown |-> FALSE,
     hUnwound |-> "none",
     \* the calls of waitForBufferedLow that have suspended, those whose
     \* promise has resolved, and whether the 2000 ms timeout has fired
     hWaits |-> 0, hResumes |-> 0, hWatchdog |-> FALSE,
     \* an open peer connection of an earlier connect is held by no ref
     orphanPc |-> FALSE]

\* selectedFile.slice(offset, offset + CHUNK_SIZE): Blob.slice clamps the end
SliceEnd(offset, size) ==
    IF offset + CHUNK_SIZE < size THEN offset + CHUNK_SIZE ELSE size

\* the while condition with <= for <
LoopCondition_Inclusive(offset, size) == offset <= size
\* while (offset < selectedFile.size)
LoopCondition(offset, size) == offset < size

\* waitForBufferedLow suspending on every call
MustWait_Never(amount) == FALSE
\* waitForBufferedLow returns at once unless bufferedAmount is above the
\* high-water mark
MustWait(amount) == amount > BUFFERED_HIGH_WATER_MARK

\* the interval's test, and the state in which bufferedamountlow fires
IsLow(amount) == amount <= BUFFERED_LOW_WATER_MARK

\* a throw inside sendFile's try block
SendFileThrows(p, message) ==
    [p EXCEPT !.sf = "idle", !.status = "error", !.error = message]

\* after the loop: send done, setStatus("completed"), channel.close()
AfterLoop(p, c) ==
    IF c.readyState # "open"
    THEN <<SendFileThrows(p, "InvalidStateError"), c>>
    ELSE <<[p EXCEPT !.sf = "idle", !.status = "completed", !.hFinished = TRUE],
           [send(c, DoneMessage) EXCEPT !.readyState = "closing"]>>

\* the head of the while loop: leave it, or enter waitForBufferedLow and
\* either go on to read the next slice or suspend
LoopTop(p, c) ==
    IF ~LoopCondition(p.offset, p.selectedFile) THEN AfterLoop(p, c)
    ELSE IF MustWait(bufferedAmount(c.wire))
         THEN <<[p EXCEPT !.sf = "suspended", !.hWaits = @ + 1], c>>
         ELSE <<[p EXCEPT !.sf = "slice"], c>>

\* the click on Send (enabled while status is ready): sendFile up to its
\* first await that is not already resolved
PhoneSendFile ==
    /\ phone.status = "ready" /\ phone.sf = "idle"
    /\ IF phone.selectedFile = NoFile \/ ~phone.channelRef
       THEN /\ phone' = [phone EXCEPT !.status = "error",
                                      !.error = "Choose a file before sending."]
            /\ chan' = chan
       ELSE IF chan.readyState # "open"
       THEN /\ phone' = [phone EXCEPT !.status = "error",
                            !.error = "Connection not ready yet. Please try again."]
            /\ chan' = chan
       ELSE LET p == [phone EXCEPT !.status = "sending", !.bytesSent = 0,
                                   !.offset = 0, !.chunkCount = 0]
                next == LoopTop(p, send(chan, MetaMessage(phone.selectedFile)))
            IN  phone' = next[1] /\ chan' = next[2]
    /\ UNCHANGED <<computer, notPageVars>>

\* slice.arrayBuffer() resolves: send the chunk and run to the next await
PhoneSendChunk ==
    /\ phone.sf = "slice"
    /\ IF chan.readyState # "open"
       THEN phone' = SendFileThrows(phone, "InvalidStateError") /\ chan' = chan
       ELSE LET end == SliceEnd(phone.offset, phone.selectedFile)
                p == [phone EXCEPT !.offset = end, !.bytesSent = end,
                                   !.chunkCount = @ + 1]
                c == send(chan, BinaryFrame(phone.offset, end))
                next == IF p.chunkCount % YIELD_EVERY = 0
                        THEN <<[p EXCEPT !.sf = "yield"], c>>
                        ELSE LoopTop(p, c)
            IN  phone' = next[1] /\ chan' = next[2]
    /\ UNCHANGED <<computer, notPageVars>>

\* the zero-delay timer taken after every 8th chunk
PhoneYield ==
    /\ phone.sf = "yield"
    /\ LET next == LoopTop(phone, chan)
       IN  phone' = next[1] /\ chan' = next[2]
    /\ UNCHANGED <<computer, notPageVars>>

\* waitForBufferedLow's promise resolves: the sender goes on to read the
\* next slice
Resumed(p) == [p EXCEPT !.sf = "slice", !.hResumed = TRUE, !.hResumes = @ + 1]

\* the transport has taken the head message off the buffer: bufferedAmount
\* drops and, in the same turn of the event loop, bufferedamountlow fires
\* if the amount has fallen from above the threshold to or below it (onLow
\* resolves the wait)
Transmitted(p, c) ==
    LET before == bufferedAmount(c.wire)
        after == bufferedAmount(Tail(c.wire))
    IN  <<IF p.sf = "suspended" /\ ~IsLow(before) /\ IsLow(after)
          THEN Resumed(p) ELSE p,
          [c EXCEPT !.wire = Tail(@)]>>

CanTransmit == chan.readyState \in {"open", "closing"} /\ chan.wire # <<>>

\* the 2000 ms timeout removing onLow and starting no interval
PhoneWaitTimeout_NoInterval ==
    /\ phone.sf = "suspended"
    /\ phone' = [phone EXCEPT !.sf = "timedOut", !.hWatchdog = TRUE]
    /\ UNCHANGED <<chan, computer, notPageVars>>

\* 2000 ms pass in waitForBufferedLow without the event: onLow is removed
\* and the 200 ms interval starts
PhoneWaitTimeout ==
    /\ phone.sf = "suspended"
    /\ phone' = [phone EXCEPT !.sf = "polling", !.hWatchdog = TRUE]
    /\ UNCHANGED <<chan, computer, notPageVars>>

\* an interval tick that finds bufferedAmount at or below the low-water mark
PhonePollBuffered ==
    /\ phone.sf = "polling"
    /\ IsLow(bufferedAmount(chan.wire))
    /\ phone' = Resumed(phone)
    /\ UNCHANGED <<chan, computer, notPageVars>>

\* the closing procedure ends once the buffered messages have gone out
ChannelClosed ==
    /\ chan.readyState = "closing" /\ chan.wire = <<>>
    /\ chan' = [chan EXCEPT !.readyState = "closed"]
    /\ UNCHANGED <<phone, computer, notPageVars>>

\* channel.onclose on the phone
PhoneOnClose ==
    /\ chan.readyState = "closed" /\ phone.channelRef /\ ~phone.closeSeen
    /\ phone' = [phone EXCEPT !.closeSeen = TRUE, !.status = "error",
                              !.error = "Channel closed. Please reconnect."]
    /\ UNCHANGED <<chan, computer, notPageVars>>

\* the transport delivers the head message to a far end that has no
\* message handler: the message is dropped there
ChannelDrain ==
    /\ CanTransmit /\ ~computer.channelRef
    /\ LET next == Transmitted(phone, chan)
       IN  phone' = next[1] /\ chan' = next[2]
    /\ UNCHANGED <<computer, notPageVars>>

(***************************************************************************)
(* The receiver (computer/page.tsx, handleDataMessage, handleReceiveDone   *)
(* and the effect that owns the connection).                               *)
(*                                                                         *)
(* channel.onmessage is the handleDataMessage of the render in which the   *)
(* running connect was created, so handleReceiveDone reads the fileMeta of *)
(* that render: closureMeta.  depsChanged records that fileMeta or         *)
(* downloadUrl has changed since the effect last ran, which gives connect  *)
(* or cleanup a new identity and makes the effect run again.               *)
(***************************************************************************)

NoMeta == <<>>
NoUrl == [url |-> FALSE, blob |-> <<>>]
NoStray == [seen |-> FALSE, status |-> "", kept |-> FALSE]

ComputerIdle ==
    [status |-> "idle", error |-> "", roomId |-> <<>>, fileMeta |-> NoMeta,
     bytesReceived |-> 0, downloadUrl |-> NoUrl,
     pcRef |-> FALSE, abortRef |-> FALSE, countdownRef |-> FALSE,
     channelRef |-> FALSE, chunksRef |-> <<>>, writableRef |-> FALSE,
     pc |-> "idle", polls |-> 0, local |-> JNull, remote |-> JNull,
     showSaveFilePicker |-> FALSE, picker |-> "none",
     sink |-> <<>>, sinkClosed |-> FALSE,
     closureMeta |-> NoMeta, depsChanged |-> FALSE,
     \* connect's local newRoomId; the countdown in clock ticks; the signal
     \* of the attempt's AbortController has fired; the attempt's peer
     \* connection has been closed
     newRoomId |-> <<>>, secondsLeft |-> 0, aborted |-> FALSE, pcClosed |-> FALSE,
     hMetaSeen |-> FALSE, hDoneSeen |-> FALSE, hStray |-> NoStray,
     hTornDown |-> FALSE, hUnwound |-> "none"]

\* the catch of handleDataMessage's try block
ParseFailed(c) ==
    [c EXCEPT !.status = "error", !.error = "Unable to parse incoming message."]

\* message.type === "meta": store the metadata, go to receiving and, where
\* the browser has showSaveFilePicker and no sink is open, ask for one (a
\* second picker while one is showing is refused at once)
OnMeta(c, message) ==
    LET c1 == [c EXCEPT !.fileMeta = <<MemberOrNull(message, "name"),
                                       MemberOrNull(message, "size"),
                                       MemberOrNull(message, "mime")>>,
                        !.depsChanged = TRUE,
                        !.status = "receiving",
                        !.hMetaSeen = TRUE]
    IN  IF ~c.writableRef /\ c.showSaveFilePicker /\ c.picker = "none"
        THEN [c1 EXCEPT !.picker = "pending"]
        ELSE c1

\* handleReceiveDone, reading the fileMeta its closure captured
handleReceiveDone(c) ==
    IF c.writableRef /\ c.sinkClosed
    THEN ParseFailed(c)     \* close() of a closed stream rejects
    ELSE LET c1 == IF c.writableRef THEN [c EXCEPT !.sinkClosed = TRUE] ELSE c
             c2 == IF ~c.writableRef /\ Len(c.chunksRef) > 0 /\ c.closureMeta # NoMeta
                   THEN [c1 EXCEPT !.downloadUrl = [url |-> TRUE, blob |-> c.chunksRef],
                                   !.depsChanged = TRUE]
                   ELSE c1
         IN  [c2 EXCEPT !.status = "completed"]

\* the binary branch: write to the open sink or push to chunksRef, then
\* add the length to bytesReceived (a write to a closed stream rejects,
\* which ends the handler before the counter)
OnBinary(c, m) ==
    IF c.writableRef
    THEN IF c.sinkClosed THEN c
         ELSE [c EXCEPT !.sink = Append(@, <<m.from, m.to>>),
                        !.bytesReceived = @ + (m.to - m.from)]
    ELSE [c EXCEPT !.chunksRef = Append(@, <<m.from, m.to>>),
                   !.bytesReceived = @ + (m.to - m.from)]

handleDataMessage(c, m) ==
    IF m.bin THEN OnBinary(c, m)
    ELSE LET message == JSONparse(m.text)
             type == MemberOrNull(message, "type")
         IN  IF message = JThrow \/ message = JNull THEN ParseFailed(c)
             ELSE IF type = JVal(<<"meta">>) THEN OnMeta(c, message)
             ELSE IF type = JVal(<<"done">>)
                  THEN [handleReceiveDone(c) EXCEPT !.hDoneSeen = TRUE]
             ELSE IF type = JVal(<<"error">>)
                  THEN [c EXCEPT !.status = "error",
                                 !.error = "message.message"]
             ELSE c

\* history: what became of a binary frame handled outside the envelope
StrayNoted(before, after, m) ==
    IF m.bin /\ (~before.hMetaSeen \/ before.hDoneSeen)
    THEN [after EXCEPT !.hStray =
             [seen |-> TRUE, status |-> after.status,
              kept |-> \/ after.bytesReceived # before.bytesReceived
                       \/ after.chunksRef # before.chunksRef
                       \/ after.sink # before.sink]]
    ELSE after

\* channel.onmessage: the transport delivers the head message
ComputerOnMessage ==
    /\ CanTransmit /\ computer.channelRef
    /\ LET next == Transmitted(phone, chan)
       IN  phone' = next[1] /\ chan' = next[2]
    /\ computer' = StrayNoted(computer,
                              handleDataMessage(computer, Head(chan.wire)),
                              Head(chan.wire))
    /\ UNCHANGED notPageVars

\* showSaveFilePicker and createWritable resolve: a new, empty sink
ComputerPickerResolve ==
    /\ computer.picker = "pending"
    /\ computer' = [computer EXCEPT !.picker = "none", !.writableRef = TRUE,
                                    !.sink = <<>>, !.sinkClosed = FALSE]
    /\ UNCHANGED <<phone, chan, notPageVars>>

\* showSaveFilePicker rejects (dismissed, or no user activation)
ComputerPickerReject ==
    /\ computer.picker = "pending"
    /\ computer' = [computer EXCEPT !.picker = "none"]
    /\ UNCHANGED <<phone, chan, notPageVars>>

\* a cleanup that keeps a count of its calls in bytesReceived
cleanup_Counting(c) ==
    [c EXCEPT !.abortRef = FALSE, !.channelRef = FALSE, !.pcRef = FALSE,
              !.countdownRef = FALSE, !.chunksRef = <<>>, !.writableRef = FALSE,
              !.downloadUrl = NoUrl, !.bytesReceived = IF @ = 1 THEN 0 ELSE 1,
              !.fileMeta = NoMeta,
              !.aborted = @ \/ c.abortRef, !.pcClosed = @ \/ c.pcRef]

\* cleanup(): the controller the ref holds is aborted, the channel and the
\* peer connection the refs hold are closed, the interval is cleared, and
\* the refs and the transfer's state are emptied
cleanup(c) ==
    [c EXCEPT !.abortRef = FALSE, !.channelRef = FALSE, !.pcRef = FALSE,
              !.countdownRef = FALSE, !.chunksRef = <<>>, !.writableRef = FALSE,
              !.downloadUrl = NoUrl, !.bytesReceived = 0, !.fileMeta = NoMeta,
              !.aborted = @ \/ c.abortRef, !.pcClosed = @ \/ c.pcRef]

\* what closing a side's peer connection does to the channel
closeChannel(ch, hadPc) ==
    IF hadPc /\ ch.readyState \in {"connecting", "open", "closing"}
    THEN [ch EXCEPT !.readyState = "closed"]
    ELSE ch

\* connect() up to its first await, the fetch of /api/signaling/create
connectStart(c) ==
    [c EXCEPT !.status = "starting", !.error = "", !.pc = "create", !.polls = 0]

\* connect's catch, and its return after setting an error
connectFails(c, message) ==
    [c EXCEPT !.status = "error", !.error = message, !.pc = "done"]

\* the effect runs again after a render that changed connect or cleanup:
\* the teardown of the previous run, then connect() up to its first await
ComputerEffect ==
    /\ computer.depsChanged
    /\ computer' =
          [connectStart(cleanup(computer)) EXCEPT
              !.closureMeta = computer.fileMeta,
              !.depsChanged = computer.fileMeta # NoMeta \/ computer.downloadUrl.url,
              !.hMetaSeen = FALSE, !.hDoneSeen = FALSE]
    /\ chan' = IF computer.channelRef /\ chan.readyState \in {"open", "closing"}
               THEN [chan EXCEPT !.readyState = "closed"]
               ELSE chan
    /\ UNCHANGED <<phone, notPageVars>>

\* what a remote peer other than this sender may put on the channel
MaxPeerMessages == 3
PeerMessages ==
    { MetaMessage(11), DoneMessage, BinaryFrame(0, 5), BinaryFrame(5, 11),
      TextMessage(JText(<<"{", "type">>)),
      TextMessage(JSONstringify(JVal(<<"{", "type", "error", "message", "m", "}">>))) }

PeerSend(m) ==
    /\ chan.readyState = "open" /\ Len(chan.sent) < MaxPeerMessages
    /\ chan' = send(chan, m)
    /\ UNCHANGED <<phone, computer, notPageVars>>

(***************************************************************************)
(* The bootstrap: connect on the computer (the offerer) and on the phone   *)
(* (the answerer), their requests to the relay, and the transport.         *)
(*                                                                         *)
(* A fetch is a request that takes a free handler slot of the relay under  *)
(* the page's name; the page's next step takes the response off the slot.  *)
(***************************************************************************)

\* the polls one connect makes before its 60 s deadline has passed
MaxPolls == 2

ComputerOffer == Desc("offer", "computer")
PhoneAnswer == Desc("answer", "phone")

\* the room codes typed on the phone: the one the computer shows, a code
\* that is not well-formed, and a well-formed code of no room
TypedCodes ==
    ({computer.roomId} \ {<<>>})
        \cup {<<"A", "B", "C">>, <<"A", "B", "C", "D", "E", "I">>}

\* the files chosen on the phone in a session
SessionFileSizes == {0, 11}

Request(s, r, client) ==
    /\ SlotFree(s)
    /\ reqs' = [reqs EXCEPT ![s] = [r EXCEPT !.client = client]]

ResponseFor(s, client) == reqs[s].pc = "done" /\ reqs[s].client = client

Taken(s) == reqs' = [reqs EXCEPT ![s] = IdleReq]

\* the effect at mount: connect()
ComputerMount ==
    /\ computer.status = "idle" /\ computer.pc = "idle"
    /\ computer' = connectStart(computer)
    /\ UNCHANGED <<phone, chan, notPageVars>>

\* fetch("/api/signaling/create", { method: "POST" })
ComputerFetchCreate(s, bytes) ==
    /\ computer.pc = "create"
    /\ Request(s, CreateRequest(bytes), "computer")
    /\ computer' = [computer EXCEPT !.pc = "awaitCreate"]
    /\ UNCHANGED <<kv, written, codecVars, phone, chan>>

\* the create response: the room id, the countdown, the peer connection
\* with its "bootstrap" channel, and the local offer
ComputerCreated(s) ==
    /\ ResponseFor(s, "computer") /\ computer.pc = "awaitCreate"
    /\ Taken(s)
    /\ IF reqs[s].resp.status # 200
       THEN /\ computer' = connectFails(computer, "Unable to create room.")
            /\ chan' = chan
       ELSE /\ computer' = [computer EXCEPT
                               !.roomId = reqs[s].resp.roomId,
                               !.newRoomId = reqs[s].resp.roomId,
                               !.status = "waiting", !.countdownRef = TRUE,
                               !.secondsLeft = TicksPerTTL,
                               !.pcRef = TRUE, !.pcClosed = FALSE,
                               !.local = ComputerOffer,
                               !.pc = "offer"]
            /\ chan' = ConnectingChannel
    /\ UNCHANGED <<kv, written, codecVars, phone>>

\* fetch(`/api/signaling/${newRoomId}`, POST {type: "offer", data})
ComputerPublishOffer(s) ==
    /\ computer.pc = "offer"
    /\ Request(s, PublishRequest(computer.newRoomId,
                     [ok |-> TRUE, type |-> "offer", data |-> computer.local]),
               "computer")
    /\ computer' = [computer EXCEPT !.pc = "awaitPublish"]
    /\ UNCHANGED <<kv, written, codecVars, phone, chan>>

\* the publish response, whatever its status: connecting, a new abort
\* controller, and the first poll
ComputerOfferPublished(s) ==
    /\ ResponseFor(s, "computer") /\ computer.pc = "awaitPublish"
    /\ Taken(s)
    /\ computer' = [computer EXCEPT !.status = "connecting", !.abortRef = TRUE,
                                    !.aborted = FALSE, !.pc = "poll"]
    /\ UNCHANGED <<kv, written, codecVars, phone, chan>>

\* fetch(`/api/signaling/poll/${newRoomId}`)
ComputerPoll(s) ==
    /\ computer.pc = "poll" /\ ~computer.aborted
    /\ Request(s, PollRequest(computer.newRoomId), "computer")
    /\ computer' = [computer EXCEPT !.pc = "awaitPoll"]
    /\ UNCHANGED <<kv, written, codecVars, phone, chan>>

\* ComputerPolled with a deadline one round late
ComputerPolled_LateDeadline(s) ==
    /\ ResponseFor(s, "computer") /\ computer.pc = "awaitPoll"
    /\ ~computer.aborted
    /\ Taken(s)
    /\ computer' =
          LET resp == reqs[s].resp IN
          IF resp.status = 404
          THEN [computer EXCEPT !.status = "expired", !.pc = "done"]
          ELSE IF resp.status # 200
          THEN connectFails(computer, "Unable to check room status.")
          ELSE IF ~Falsy(resp.answer)
          THEN IF computer.pcClosed
               THEN connectFails(computer, "InvalidStateError")
               ELSE [computer EXCEPT !.remote = resp.answer, !.status = "waiting",
                                     !.pc = "done"]
          ELSE IF computer.polls < MaxPolls
          THEN [computer EXCEPT !.polls = @ + 1, !.pc = "poll"]
          ELSE connectFails([computer EXCEPT !.polls = @ + 1],
                            "Connection timed out. Please try again.")
    /\ UNCHANGED <<kv, written, codecVars, phone, chan>>

\* the poll response: expired on 404, the answer applied (which a closed
\* peer connection refuses), or the sleep and the next turn of the loop
\* until the deadline
ComputerPolled(s) ==
    /\ ResponseFor(s, "computer") /\ computer.pc = "awaitPoll"
    /\ ~computer.aborted
    /\ Taken(s)
    /\ computer' =
          LET resp == reqs[s].resp IN
          IF resp.status = 404
          THEN [computer EXCEPT !.status = "expired", !.pc = "done"]
          ELSE IF resp.status # 200
          THEN connectFails(computer, "Unable to check room status.")
          ELSE IF ~Falsy(resp.answer)
          THEN IF computer.pcClosed
               THEN connectFails(computer, "InvalidStateError")
               ELSE [computer EXCEPT !.remote = resp.answer, !.status = "waiting",
                                     !.pc = "done"]
          ELSE IF computer.polls + 1 < MaxPolls
          THEN [computer EXCEPT !.polls = @ + 1, !.pc = "poll"]
          ELSE connectFails([computer EXCEPT !.polls = @ + 1],
                            "Connection timed out. Please try again.")
    /\ UNCHANGED <<kv, written, codecVars, phone, chan>>

\* connect without the isValidRoomId check
PhoneConnect_NoValidation(id) ==
    /\ phone.pc = "idle"
    /\ id \in TypedCodes
    /\ phone' = [phone EXCEPT !.roomInput = id, !.status = "connecting",
                              !.error = "", !.pcRef = TRUE, !.abortRef = TRUE,
                              !.pc = "poll", !.polls = 0, !.hTornDown = FALSE]
    /\ UNCHANGED <<computer, chan, notPageVars>>

\* Connect on the phone with the code typed
PhoneConnect(id) ==
    /\ phone.pc = "idle"
    /\ id \in TypedCodes
    /\ phone' =
          IF ~isValidRoomId(id)
          THEN [phone EXCEPT !.roomInput = id, !.status = "error",
                             !.error = "Enter a valid 6 character room code.",
                             !.hTornDown = FALSE]
          ELSE [phone EXCEPT !.roomInput = id, !.status = "connecting",
                             !.error = "", !.pcRef = TRUE, !.abortRef = TRUE,
                             !.aborted = FALSE,
                             !.pc = "poll", !.polls = 0, !.hTornDown = FALSE]
    /\ UNCHANGED <<computer, chan, notPageVars>>

\* Connect pressed again, with the code unchanged, after a connect that
\* returned before it had an offer: a new peer connection and a new
\* controller are stored in the refs; what the refs held is not closed
PhoneConnectAgain ==
    /\ phone.pc = "done" /\ phone.remote = JNull
    /\ phone' = [phone EXCEPT !.status = "connecting", !.error = "",
                              !.pcRef = TRUE, !.abortRef = TRUE,
                              !.aborted = FALSE,
                              !.pc = "poll", !.polls = 0, !.hTornDown = FALSE,
                              !.orphanPc = @ \/ phone.pcRef]
    /\ UNCHANGED <<computer, chan, notPageVars>>

\* fetch(`/api/signaling/poll/${roomInput}`)
PhonePoll(s) ==
    /\ phone.pc = "poll" /\ ~phone.aborted
    /\ Request(s, PollRequest(phone.roomInput), "phone")
    /\ phone' = [phone EXCEPT !.pc = "awaitPoll"]
    /\ UNCHANGED <<kv, written, codecVars, computer, chan>>

\* the poll response: expired on 404, the offer applied and the answer
\* made, or the sleep and the next turn of the loop until the deadline
PhonePolled(s) ==
    /\ ResponseFor(s, "phone") /\ phone.pc = "awaitPoll"
    /\ ~phone.aborted
    /\ Taken(s)
    /\ phone' =
          LET resp == reqs[s].resp IN
          IF resp.status = 404
          THEN [phone EXCEPT !.status = "expired", !.pc = "done"]
          ELSE IF resp.status # 200
          THEN [phone EXCEPT !.status = "error", !.error = "Unable to check room.",
                             !.pc = "done"]
          ELSE IF ~Falsy(resp.offer)
          THEN [phone EXCEPT !.remote = resp.offer, !.local = PhoneAnswer,
                             !.pc = "answer"]
          ELSE IF phone.polls + 1 < MaxPolls
          THEN [phone EXCEPT !.polls = @ + 1, !.pc = "poll"]
          ELSE [phone EXCEPT !.polls = @ + 1, !.status = "error",
                             !.error = "Room did not respond in time. Try again.",
                             !.pc = "done"]
    /\ UNCHANGED <<kv, written, codecVars, computer, chan>>

\* fetch(`/api/signaling/${roomInput}`, POST {type: "answer", data})
PhonePublishAnswer(s) ==
    /\ phone.pc = "answer"
    /\ Request(s, PublishRequest(phone.roomInput,
                     [ok |-> TRUE, type |-> "answer", data |-> phone.local]),
               "phone")
    /\ phone' = [phone EXCEPT !.pc = "awaitPublish"]
    /\ UNCHANGED <<kv, written, codecVars, computer, chan>>

\* the publish response: connect returns
PhoneAnswerPublished(s) ==
    /\ ResponseFor(s, "phone") /\ phone.pc = "awaitPublish"
    /\ Taken(s)
    /\ phone' = [phone EXCEPT !.pc = "done"]
    /\ UNCHANGED <<kv, written, codecVars, computer, chan>>

\* Both descriptions are applied on both sides and the transport connects.
\* The channel the computer created is announced to the phone, the peer
\* that did not create it: pc.ondatachannel on the phone.  The computer's
\* own end of the channel is the object createDataChannel returned.
PhoneOnDataChannel ==
    /\ chan.readyState = "connecting"
    /\ computer.pcRef /\ phone.pcRef /\ ~computer.pcClosed
    /\ phone.remote = computer.local /\ computer.remote = phone.local
    /\ computer.remote # JNull
    /\ chan' = [chan EXCEPT !.readyState = "open"]
    /\ phone' = [phone EXCEPT !.channelRef = TRUE]
    /\ UNCHANGED <<computer, notPageVars>>

\* channel.onopen on the phone
PhoneChannelOpen ==
    /\ phone.channelRef /\ ~phone.openSeen
    /\ chan.readyState = "open"
    /\ phone' = [phone EXCEPT !.openSeen = TRUE, !.status = "ready"]
    /\ UNCHANGED <<computer, chan, notPageVars>>

\* the file input's onChange
PhoneSelectFile(size) ==
    /\ phone.status = "ready" /\ phone.selectedFile = NoFile
    /\ phone' = [phone EXCEPT !.selectedFile = size]
    /\ UNCHANGED <<computer, chan, notPageVars>>

(***************************************************************************)
(* Time, cancellation and teardown.                                        *)
(*                                                                         *)
(* The countdown runs in the clock ticks of the store's TTL.  A fetch or a *)
(* sleep that was given the attempt's signal rejects with an AbortError    *)
(* when the signal fires; the awaits that were given no signal (the create *)
(* and publish requests, the making of the description and the wait for    *)
(* ICE gathering) go on.                                                   *)
(***************************************************************************)

\* the interval of startCountdown is running
CountdownRunning(c) == c.countdownRef /\ c.secondsLeft > 0

\* connect is between startCountdown and the POST of the offer: making the
\* offer and the wait for ICE gathering, which is given up after 2.5 s,
\* are over long before the countdown's 300 s
InBoundedWait(c) == c.pc = "offer"

\* the interval's callback with a last run that only sets expired
ComputerCountdownTick_StatusOnly ==
    /\ CountdownRunning(computer)
    /\ InBoundedWait(computer) => computer.secondsLeft > 1
    /\ computer' = IF computer.secondsLeft <= 1
                   THEN [computer EXCEPT !.secondsLeft = 0, !.status = "expired"]
                   ELSE [computer EXCEPT !.secondsLeft = @ - 1]
    /\ UNCHANGED <<chan, phone, notPageVars>>

\* one run of the interval's callback: the last one clears the interval,
\* aborts the controller and closes the channel and the peer connection
\* the refs hold, and sets expired
ComputerCountdownTick ==
    /\ CountdownRunning(computer)
    /\ InBoundedWait(computer) => computer.secondsLeft > 1
    /\ IF computer.secondsLeft <= 1
       THEN /\ computer' = [computer EXCEPT
                               !.secondsLeft = 0,
                               !.aborted = @ \/ computer.abortRef,
                               !.pcClosed = @ \/ computer.pcRef,
                               !.status = "expired"]
            /\ chan' = closeChannel(chan, computer.pcRef)
       ELSE /\ computer' = [computer EXCEPT !.secondsLeft = @ - 1]
            /\ chan' = chan
    /\ UNCHANGED <<phone, notPageVars>>

\* a request whose fetch has been aborted: its response reaches no one
Abandoned(client) ==
    [s \in Slots |-> IF reqs[s].client = client
                     THEN [reqs[s] EXCEPT !.client = "net"]
                     ELSE reqs[s]]

\* an AbortError handled as any other error
ComputerAborted_Surfaced ==
    /\ computer.aborted /\ computer.pc \in {"poll", "awaitPoll"}
    /\ computer' = connectFails(computer, "Aborted")
    /\ reqs' = Abandoned("computer")
    /\ UNCHANGED <<kv, written, codecVars, phone, chan>>

\* the AbortError reaches connect's catch, which returns
ComputerAborted ==
    /\ computer.aborted /\ computer.pc \in {"poll", "awaitPoll"}
    /\ computer' = [computer EXCEPT !.pc = "done", !.hUnwound = computer.pc]
    /\ reqs' = Abandoned("computer")
    /\ UNCHANGED <<kv, written, codecVars, phone, chan>>

\* reset(), from the buttons shown in error, expired and completed.  It
\* calls connect nowhere: the effect runs again only if cleanup's
\* setFileMeta(null) or setDownloadUrl(null) changed a value
ComputerReset ==
    /\ computer.status \in {"error", "expired", "completed"}
    /\ computer' = [cleanup(computer) EXCEPT
                       !.error = "", !.roomId = <<>>,
                       !.secondsLeft = TicksPerTTL,
                       !.status = "idle", !.hTornDown = TRUE,
                       !.depsChanged = @ \/ computer.fileMeta # NoMeta
                                         \/ computer.downloadUrl.url]
    /\ chan' = closeChannel(chan, computer.pcRef)
    /\ UNCHANGED <<phone, notPageVars>>

\* cleanup() of the phone
phoneCleanup(p) ==
    [p EXCEPT !.abortRef = FALSE, !.channelRef = FALSE, !.pcRef = FALSE,
              !.bytesSent = 0, !.aborted = @ \/ p.abortRef]

\* the teardown of the phone's effect, which runs when the room code in
\* the input changes (connect depends on roomInput) and when the page is
\* left
PhoneTeardown ==
    /\ phone.pc # "idle"
    /\ phone' = [phoneCleanup(phone) EXCEPT !.hTornDown = TRUE]
    /\ chan' = closeChannel(chan, phone.pcRef)
    /\ UNCHANGED <<computer, notPageVars>>

\* reset(), from the button shown in error and expired
PhoneReset ==
    /\ phone.status \in {"error", "expired"}
    /\ phone' = [phoneCleanup(phone) EXCEPT
                    !.error = "", !.status = "idle", !.selectedFile = NoFile,
                    !.hTornDown = TRUE]
    /\ chan' = closeChannel(chan, phone.pcRef)
    /\ UNCHANGED <<computer, notPageVars>>

\* the AbortError reaches connect's catch, which returns
PhoneAborted ==
    /\ phone.aborted /\ phone.pc \in {"poll", "awaitPoll"}
    /\ phone' = [phone EXCEPT !.pc = "done", !.hUnwound = phone.pc]
    /\ reqs' = Abandoned("phone")
    /\ UNCHANGED <<kv, written, codecVars, computer, chan>>

\* createAnswer or setLocalDescription on a peer connection that has been
\* closed in the meantime
PhoneAnswerFails ==
    /\ phone.pc = "answer" /\ phone.hTornDown
    /\ phone' = [phone EXCEPT !.status = "error", !.error = "InvalidStateError",
                              !.pc = "done"]
    /\ UNCHANGED <<computer, chan, notPageVars>>

(***************************************************************************)
(* Specifications.  Each one starts the components it is about and leaves  *)
(* the others in their initial, inactive state.                            *)
(***************************************************************************)

PagesOff == phone = PhoneIdle /\ computer = ComputerIdle /\ chan = NoChannel

RelayOff ==
    /\ kv = [id \in StoreIds |-> [f \in Fields |-> Absent]]
    /\ reqs = [s \in Slots |-> IdleReq]
    /\ written = [id \in StoreIds |-> [r \in Roles |-> NotWritten]]

InitRelay == RelayInit /\ CodecOff /\ PagesOff

\* A response is handed back before the next step of any handler is
\* taken: a finished handler takes no further part in the run.
NextRelay ==
    \/ \E s \in Slots : Deliver(s)
    \/ \E s \in Slots, b \in RelayDraws : CreateStart(s, b)
    \/ \E s \in Slots, b \in RelayDraws : CreateLoop(s, b)
    \/ \E s \in Slots : CreateSet(s)
    \/ \E s \in Slots, id \in RequestIds, body \in Bodies : PublishStart(s, id, body)
    \/ \E s \in Slots : PublishSetRole(s)
    \/ \E s \in Slots : PublishSetExists(s)
    \/ \E s \in Slots, id \in RequestIds : PollStart(s, id)
    \/ \E s \in Slots, deser \in BOOLEAN : PollRead(s, deser)
    \/ StoreTick

SpecRelay == InitRelay /\ [][NextRelay]_vars

\* room creation alone, with draws that give two different ids
NextCreate ==
    \/ \E s \in Slots : Deliver(s)
    \/ \E s \in Slots, b \in CreateDraws : CreateStart(s, b)
    \/ \E s \in Slots, b \in CreateDraws : CreateLoop(s, b)
    \/ \E s \in Slots : CreateSet(s)
    \/ StoreTick

SpecCreate == InitRelay /\ [][NextCreate]_vars

\* Polls of a store that already holds values, by either poll handler.
InitPoll == SeededInit /\ CodecOff /\ PagesOff

NextPoll ==
    \/ \E s \in Slots : Deliver(s)
    \/ \E s \in Slots, id \in RequestIds : PollStart(s, id)
    \/ \E s \in Slots, deser \in BOOLEAN : PollRead(s, deser)
    \/ \E s \in Slots, id \in RequestIds : PollStartStrict(s, id)
    \/ \E s \in Slots, deser \in BOOLEAN : PollReadStrict(s, deser)
    \/ StoreTick

SpecPoll == InitPoll /\ [][NextPoll]_vars

InitCodec == InitCodecCalls /\ RelayOff /\ PagesOff

NextCodec == ValidateCall \/ GenerateCall

SpecCodec == InitCodec /\ [][NextCodec]_vars

\* A transfer: the phone is ready with a file chosen (or none), its
\* channel is open, and the channel's far end is the one whose onmessage
\* the computer's connect has set to handleDataMessage.
InitTransfer ==
    /\ \E size \in FileSizes \cup {NoFile} :
          phone = [PhoneIdle EXCEPT !.status = "ready", !.channelRef = TRUE,
                                    !.pcRef = TRUE, !.pc = "done", !.openSeen = TRUE,
                                    !.selectedFile = size]
    /\ \E picker \in BOOLEAN :
          computer = [ComputerIdle EXCEPT !.status = "waiting", !.channelRef = TRUE,
                                          !.pcRef = TRUE, !.pc = "done",
                                          !.showSaveFilePicker = picker]
    /\ chan = OpenChannel
    /\ RelayOff /\ CodecOff

NextTransfer ==
    \/ PhoneSendFile
    \/ PhoneSendChunk
    \/ PhoneYield
    \/ ComputerOnMessage
    \/ ComputerPickerResolve
    \/ ComputerPickerReject
    \/ ComputerEffect
    \/ ChannelClosed
    \/ PhoneOnClose

SpecTransfer == InitTransfer /\ [][NextTransfer]_vars

\* The sender against the transport alone, with files large enough to
\* fill the send buffer beyond the high-water mark.
MaxExtraChunks == 2
BackpressureFileSizes ==
    { BUFFERED_HIGH_WATER_MARK + k * CHUNK_SIZE : k \in 1..MaxExtraChunks }
        \cup { BUFFERED_HIGH_WATER_MARK + 11 }

InitBackpressure ==
    /\ \E size \in BackpressureFileSizes :
          phone = [PhoneIdle EXCEPT !.status = "ready", !.channelRef = TRUE,
                                    !.pcRef = TRUE, !.pc = "done", !.openSeen = TRUE,
                                    !.selectedFile = size]
    /\ computer = ComputerIdle
    /\ chan = OpenChannel
    /\ RelayOff /\ CodecOff

NextBackpressure ==
    \/ PhoneSendFile
    \/ PhoneSendChunk
    \/ PhoneYield
    \/ ChannelDrain
    \/ PhoneWaitTimeout
    \/ PhonePollBuffered
    \/ ChannelClosed
    \/ PhoneOnClose

SpecBackpressure == InitBackpressure /\ [][NextBackpressure]_vars

\* The same with a page that stays alive: the 200 ms interval of
\* waitForBufferedLow keeps firing while it is set.
SpecBackpressureFair == SpecBackpressure /\ WF_vars(PhonePollBuffered)

\* The receiver against an arbitrary remote peer.
InitReceiver ==
    /\ phone = PhoneIdle
    /\ \E picker \in BOOLEAN :
          computer = [ComputerIdle EXCEPT !.status = "waiting", !.channelRef = TRUE,
                                          !.pcRef = TRUE, !.pc = "done",
                                          !.showSaveFilePicker = picker]
    /\ chan = OpenChannel
    /\ RelayOff /\ CodecOff

NextReceiver ==
    \/ \E m \in PeerMessages : PeerSend(m)
    \/ ComputerOnMessage
    \/ ComputerPickerResolve
    \/ ComputerPickerReject
    \/ ComputerEffect

SpecReceiver == InitReceiver /\ [][NextReceiver]_vars

\* A session: both pages from their mount, the relay with an empty store,
\* and the transport.  The run is shorter than the room's TTL.
InitSession ==
    /\ phone = PhoneIdle
    /\ computer = ComputerIdle
    /\ chan = NoChannel
    /\ RelayInit /\ CodecOff

NextSession ==
    \/ ComputerMount
    \/ \E s \in Slots, b \in RelayDraws : ComputerFetchCreate(s, b)
    \/ \E s \in Slots, b \in RelayDraws : CreateLoop(s, b)
    \/ \E s \in Slots : CreateSet(s)
    \/ \E s \in Slots : ComputerCreated(s)
    \/ \E s \in Slots : ComputerPublishOffer(s)
    \/ \E s \in Slots : PublishSetRole(s)
    \/ \E s \in Slots : PublishSetExists(s)
    \/ \E s \in Slots : ComputerOfferPublished(s)
    \/ \E s \in Slots : ComputerPoll(s)
    \/ \E s \in Slots, deser \in BOOLEAN : PollRead(s, deser)
    \/ \E s \in Slots : ComputerPolled(s)
    \/ \E id \in RequestIds : PhoneConnect(id)
    \/ \E s \in Slots : PhonePoll(s)
    \/ \E s \in Slots : PhonePolled(s)
    \/ \E s \in Slots : PhonePublishAnswer(s)
    \/ \E s \in Slots : PhoneAnswerPublished(s)
    \/ PhoneOnDataChannel
    \/ PhoneChannelOpen
    \/ \E size \in SessionFileSizes : PhoneSelectFile(size)
    \/ PhoneSendFile
    \/ PhoneSendChunk
    \/ ChannelDrain
    \/ ChannelClosed
    \/ PhoneOnClose

SpecSession == InitSession /\ [][NextSession]_vars

\* The bootstrap with the clock running: both pages from their mount, the
\* store's TTLs and the countdown, cancellation, reset and teardown.
NextBootstrap ==
    \/ ComputerMount
    \/ \E s \in Slots, b \in RelayDraws : ComputerFetchCreate(s, b)
    \/ \E s \in Slots, b \in RelayDraws : CreateLoop(s, b)
    \/ \E s \in Slots : CreateSet(s)
    \/ \E s \in Slots : ComputerCreated(s)
    \/ \E s \in Slots : ComputerPublishOffer(s)
    \/ \E s \in Slots : PublishSetRole(s)
    \/ \E s \in Slots : PublishSetExists(s)
    \/ \E s \in Slots : ComputerOfferPublished(s)
    \/ \E s \in Slots : ComputerPoll(s)
    \/ \E s \in Slots, deser \in BOOLEAN : PollRead(s, deser)
    \/ \E s \in Slots : ComputerPolled(s)
    \/ ComputerAborted
    \/ ComputerCountdownTick
    \/ ComputerReset
    \/ \E id \in RequestIds : PhoneConnect(id)
    \/ \E s \in Slots : PhonePoll(s)
    \/ \E s \in Slots : PhonePolled(s)
    \/ PhoneAborted
    \/ \E s \in Slots : PhonePublishAnswer(s)
    \/ PhoneAnswerFails
    \/ \E s \in Slots : PhoneAnswerPublished(s)
    \/ PhoneOnDataChannel
    \/ PhoneChannelOpen
    \/ PhoneOnClose
    \/ PhoneTeardown
    \/ PhoneReset
    \/ \E s \in Slots : Deliver(s)
    \/ StoreTick

SpecBootstrap == InitSession /\ [][NextBootstrap]_vars

\* The bootstrap with a user who presses Connect again after an attempt
\* that has ended.
NextReconnect ==
    \/ ComputerMount
    \/ \E s \in Slots, b \in RelayDraws : ComputerFetchCreate(s, b)
    \/ \E s \in Slots, b \in RelayDraws : CreateLoop(s, b)
    \/ \E s \in Slots : CreateSet(s)
    \/ \E s \in Slots : ComputerCreated(s)
    \/ \E s \in Slots : ComputerPublishOffer(s)
    \/ \E s \in Slots : PublishSetRole(s)
    \/ \E s \in Slots : PublishSetExists(s)
    \/ \E s \in Slots : ComputerOfferPublished(s)
    \/ \E s \in Slots : ComputerPoll(s)
    \/ \E s \in Slots, deser \in BOOLEAN : PollRead(s, deser)
    \/ \E s \in Slots : ComputerPolled(s)
    \/ ComputerAborted
    \/ ComputerCountdownTick
    \/ ComputerReset
    \/ \E id \in RequestIds : PhoneConnect(id)
    \/ \E s \in Slots : PhonePoll(s)
    \/ \E s \in Slots : PhonePolled(s)
    \/ PhoneAborted
    \/ \E s \in Slots : PhonePublishAnswer(s)
    \/ PhoneAnswerFails
    \/ \E s \in Slots : PhoneAnswerPublished(s)
    \/ PhoneOnDataChannel
    \/ PhoneChannelOpen
    \/ PhoneOnClose
    \/ PhoneTeardown
    \/ PhoneReset
    \/ \E s \in Slots : Deliver(s)
    \/ StoreTick
    \/ PhoneConnectAgain

SpecReconnect == InitSession /\ [][NextReconnect]_vars

\* The steps that need no user and no clock tick: the relay's handlers
\* answer, and a page's continuation runs once what it awaits has settled.
BootstrapProgress ==
    \/ \E s \in Slots, b \in RelayDraws : ComputerFetchCreate(s, b)
    \/ \E s \in Slots, b \in RelayDraws : CreateLoop(s, b)
    \/ \E s \in Slots : CreateSet(s)
    \/ \E s \in Slots : ComputerCreated(s)
    \/ \E s \in Slots : ComputerPublishOffer(s)
    \/ \E s \in Slots : PublishSetRole(s)
    \/ \E s \in Slots : PublishSetExists(s)
    \/ \E s \in Slots : ComputerOfferPublished(s)
    \/ \E s \in Slots : ComputerPoll(s)
    \/ \E s \in Slots, deser \in BOOLEAN : PollRead(s, deser)
    \/ \E s \in Slots : ComputerPolled(s)
    \/ ComputerAborted
    \/ \E s \in Slots : PhonePoll(s)
    \/ \E s \in Slots : PhonePolled(s)
    \/ PhoneAborted
    \/ \E s \in Slots : PhonePublishAnswer(s)
    \/ \E s \in Slots : PhoneAnswerPublished(s)
    \/ \E s \in Slots : Deliver(s)

\* The bootstrap with a relay that answers and an event loop that runs
\* every continuation that is ready.
SpecBootstrapFair == SpecBootstrap /\ WF_vars(BootstrapProgress)

(***************************************************************************)
(* Properties of the relay.                                                *)
(***************************************************************************)
DonePolls == { s \in Slots : reqs[s].pc = "done" /\ reqs[s].op = "poll" }
DonePublishes == { s \in Slots : reqs[s].pc = "done" /\ reqs[s].op = "publish" }

\* C6 as stated: a poll that found the exists marker live returns, under
\* each role, the data of the last publish to that role.
C6_PollReturnsLastPublish ==
    \A s \in DonePolls : \A role \in Roles :
        (reqs[s].resp.status = 200 /\ reqs[s].hExpect[role] # NotWritten)
            => reqs[s].resp[role] = reqs[s].hExpect[role]

\* C6 amended: a poll that found the exists marker live and reads a role
\* key whose own TTL has not elapsed returns the data of the last publish
\* to that role, unchanged.
C6_PollReturnsLastPublishWhileKeyLive ==
    \A s \in DonePolls : \A role \in Roles :
        (reqs[s].resp.status = 200 /\ reqs[s].hExpect[role] # NotWritten
            /\ reqs[s].hKeyLive[role])
            => reqs[s].resp[role] = reqs[s].hExpect[role]

\* C6 witness: a poll answered with the published offer and a null answer
C6_Witness ==
    \E s \in DonePolls :
        /\ reqs[s].resp.status = 200
        /\ reqs[s].hExpect["offer"] = Desc("offer", "v1")
        /\ reqs[s].hKeyLive["offer"]
        /\ reqs[s].resp.offer = Desc("offer", "v1")
        /\ reqs[s].resp.answer = JNull

\* C7: publish and poll answer 400 exactly for an id that fails
\* isValidRoomId (or, for publish, an invalid payload) and 404 exactly for
\* a valid id without a live exists marker; a publish that does not answer
\* 200 has written no key.
C7_ErrorMapping ==
    \A s \in DonePolls \cup DonePublishes :
        LET r == reqs[s] IN
        /\ ~isValidRoomId(r.id) => r.resp.status = 400
        /\ (isValidRoomId(r.id) /\ ~r.hExistsLive) => r.resp.status = 404
        /\ r.resp.status = 404 => (isValidRoomId(r.id) /\ ~r.hExistsLive)
        /\ (r.resp.status = 400 /\ r.op = "poll") => ~isValidRoomId(r.id)
        /\ (r.resp.status = 400 /\ r.op = "publish")
                => (~isValidRoomId(r.id) \/ ~r.hBodyValid)
        /\ (r.op = "publish" /\ r.resp.status # 200) => ~r.hWrote
        /\ (r.op = "publish" /\ r.resp.status = 200) => (r.hWrote /\ r.hBodyValid)

\* C7 witness: a publish to a room whose marker has lapsed answers 404
\* with the description keys as they were
C7_Witness ==
    \E s \in DonePublishes :
        /\ reqs[s].resp.status = 404
        /\ reqs[s].hBodyValid
        /\ written[reqs[s].id]["offer"] # NotWritten
        /\ kv[reqs[s].id]["exists"].ttl = 0

\* C8 as stated: createRoom retries only while the current candidate has a
\* live exists marker, and leaves the loop with a live candidate only when
\* the 5 retries are used up.
C8_RetriesOnlyWhileCandidateLive ==
    \A s \in Slots :
        reqs[s].op = "create" =>
            /\ ~reqs[s].hRetryOnFree
            /\ (reqs[s].pc \in {"set", "done"} /\ reqs[s].hLiveAtExit)
                    => reqs[s].attempt = MaxCreateRetries


\* a combined record: an object whose offer and answer members are
\* descriptions or missing
IsLegacyRecord(v) ==
    /\ ~IsText(v) /\ v # JNull /\ v[2] = "{"
    /\ \A role \in Roles :
          MemberOrNull(v, role) = JNull \/ MemberOrNull(v, role)[2] = "{"

\* what kv.get gives for a description stored under its dedicated key
\* (nothing when the record has no such member)
DedicatedValue(record, role, deser) ==
    IF MemberOrNull(record, role) = JNull THEN JNull
    ELSE Delivered(JSONstringify(MemberOrNull(record, role)), deser)

\* C11: a poll of a live room whose role keys are empty and whose combined
\* value parses to a record {offer, answer} answers exactly as a poll does
\* that finds the record's offer and answer under the role keys.
C11_LegacyFallbackEquivalent ==
    \A s \in DonePolls :
        LET id == reqs[s].id
            record == safeParse(kv[id]["legacy"].val)
        IN  (/\ reqs[s].resp.status = 200
             /\ kv[id]["offer"].ttl = 0 /\ kv[id]["answer"].ttl = 0
             /\ kv[id]["legacy"].ttl > 0
             /\ IsLegacyRecord(record))
            => /\ \A deser \in BOOLEAN :
                    reqs[s].resp = PollResponseOf(DedicatedValue(record, "offer", deser),
                                                  DedicatedValue(record, "answer", deser),
                                                  JNull)
               /\ reqs[s].resp.offer = MemberOrNull(record, "offer")
               /\ reqs[s].resp.answer = MemberOrNull(record, "answer")

\* C11 witness: a poll answered from the combined record alone, with both
\* descriptions
C11_Witness ==
    \E s \in DonePolls :
        /\ reqs[s].resp.status = 200
        /\ kv[reqs[s].id]["offer"].ttl = 0 /\ kv[reqs[s].id]["answer"].ttl = 0
        /\ kv[reqs[s].id]["legacy"].val = JSONstringify(LegacyBoth)
        /\ kv[reqs[s].id]["legacy"].ttl > 0
        /\ reqs[s].resp.offer = Desc("offer", "v1")
        /\ reqs[s].resp.answer = Desc("answer", "v2")

DoneStrictPolls == { s \in Slots : reqs[s].pc = "done" /\ reqs[s].op = "pollStrict" }

\* C12: a poll of a live room answers 200 whatever is stored, and answers
\* null for a field whose stored value cannot be parsed.
C12_PollToleratesUnparseable ==
    \A s \in DonePolls \cup DoneStrictPolls :
        reqs[s].hExistsLive =>
            /\ reqs[s].resp.status = 200
            /\ \A role \in Roles :
                  (kv[reqs[s].id][role].ttl > 0 /\ kv[reqs[s].id][role].val = Unparseable
                     /\ (reqs[s].op = "pollStrict"
                            \/ kv[reqs[s].id]["legacy"].ttl = 0
                            \/ kv[reqs[s].id]["legacy"].val = Unparseable))
                    => reqs[s].resp[role] = JNull

\* C22 as stated: in every state of the store, a room whose offer or answer
\* key is live has a live exists marker.
C22_DescriptionImpliesMarker ==
    \A id \in StoreIds : \A role \in Roles :
        kv[id][role].ttl > 0 => kv[id]["exists"].ttl > 0

DoneCreates == { s \in Slots : reqs[s].pc = "done" /\ reqs[s].op = "create" }

\* C30 as stated: when createRoom has set the marker and is returning a
\* room id, the answer a poll of that room gets from the store as it is
\* has offer = null and answer = null.
C30_NewRoomCarriesNothing ==
    \A s \in DoneCreates : \A deser \in BOOLEAN :
        LET id == reqs[s].resp.roomId
            resp == PollResponseOf(Delivered(kvGet(id, "offer"), deser),
                                   Delivered(kvGet(id, "answer"), deser),
                                   Delivered(kvGet(id, "legacy"), deser))
        IN  resp.offer = JNull /\ resp.answer = JNull

(***************************************************************************)
(* Properties of the transfer.                                             *)
(***************************************************************************)

\* the ranges lie end to end from byte 0 to byte `size`: the bytes of the
\* file, each once, in order
IsWholeFile(ranges, size) ==
    IF ranges = <<>> THEN size = 0
    ELSE /\ ranges[1][1] = 0
         /\ ranges[Len(ranges)][2] = size
         /\ \A i \in 1..Len(ranges) : ranges[i][1] < ranges[i][2]
         /\ \A i \in 1..(Len(ranges) - 1) : ranges[i][2] = ranges[i + 1][1]

\* C1 as stated: when the receiver is completed, its byte counter equals
\* the size of the file sent and what it has stored for the file (the closed
\* sink's content, or the downloadable object built from the chunks in
\* memory) is the file's bytes in order.
C1_CompletedHoldsFile ==
    computer.status = "completed" =>
        /\ computer.bytesReceived = phone.selectedFile
        /\ \/ /\ computer.writableRef /\ computer.sinkClosed
              /\ IsWholeFile(computer.sink, phone.selectedFile)
           \/ /\ computer.downloadUrl.url
              /\ IsWholeFile(computer.downloadUrl.blob, phone.selectedFile)

\* C2: the messages handed to send() are, at every moment, a beginning of
\* meta, frames, done: the first is the meta message; every later control
\* message is done and is the last message; frames are non-empty, at most
\* 256 KiB, start at offset 0 and each starts where the one before ended;
\* done comes only once the frames reach the end of the file; and when
\* sendFile has finished the log ends with done and the channel is closing
\* or closed.
C2_SentSequence ==
    LET log == chan.sent
        n == Len(log)
    IN  /\ n > 0 => log[1] = MetaMessage(phone.selectedFile)
        /\ \A i \in 2..n :
              IF log[i].bin
              THEN /\ log[i].from < log[i].to
                   /\ log[i].to - log[i].from <= 256 * 1024
                   /\ log[i].from = IF i = 2 THEN 0 ELSE log[i - 1].to
                   /\ log[i - 1].bin \/ i = 2
              ELSE /\ log[i] = DoneMessage
                   /\ i = n
                   /\ IF i = 2 THEN phone.selectedFile = 0
                      ELSE log[i - 1].bin /\ log[i - 1].to = phone.selectedFile
        /\ phone.hFinished =>
              /\ n >= 2 /\ log[n] = DoneMessage
              /\ chan.readyState \in {"closing", "closed"}

\* C2 witness: sendFile has finished a file of one full chunk and one byte
C2_Witness ==
    /\ phone.hFinished
    /\ phone.selectedFile = CHUNK_SIZE + 1
    /\ Len(chan.sent) = 4
    /\ chan.sent[3] = BinaryFrame(CHUNK_SIZE, CHUNK_SIZE + 1)

\* C3 as stated: a binary frame handled before any meta or after a done
\* leaves the receiver in error and is neither stored nor counted.
C3_StrayFrameIsViolation ==
    computer.hStray.seen =>
        computer.hStray.status = "error" /\ ~computer.hStray.kept

\* a step in which sendFile hands a binary frame to send()
BinarySend ==
    /\ Len(chan'.sent) = Len(chan.sent) + 1
    /\ chan'.sent[Len(chan'.sent)].bin

\* a step in which the promise of waitForBufferedLow resolves
WaitResolves == phone.sf \in {"suspended", "polling"} /\ phone'.sf = "slice"

\* C4: no binary frame is sent while bufferedAmount is above the 16 MiB
\* high-water mark, and a sender suspended in waitForBufferedLow resumes
\* only with bufferedAmount at or below the 4 MiB low-water mark.
C4_Backpressure ==
    [][ /\ BinarySend => bufferedAmount(chan.wire) <= 16 * 1024 * 1024
        /\ WaitResolves => bufferedAmount(chan'.wire) <= 4 * 1024 * 1024 ]_vars

\* C4 witness: the sender was suspended above the high-water mark, has
\* resumed and has sent the rest of the file
C4_Witness == phone.hResumed /\ phone.hFinished

\* C5 as stated, at the moment the premise has run its course: once the
\* sender has sent meta, the frames and done over the connection the
\* bootstrap made and the transport has delivered every message, the
\* receiver is completed with its byte counter equal to the file size.
C5_SessionCompletes ==
    (phone.hFinished /\ chan.wire = <<>>) =>
        /\ computer.status = "completed"
        /\ computer.bytesReceived = phone.selectedFile

\* C21 as stated: the frames of a session never lie partly in the chunks in
\* memory and partly in the streaming sink, and the sink that done closes
\* has left no frame of the session behind in memory.
C21_OneSinkPerSession ==
    /\ ~(computer.writableRef /\ computer.sink # <<>> /\ computer.chunksRef # <<>>)
    /\ (computer.writableRef /\ computer.sinkClosed) => computer.chunksRef = <<>>

\* C24 as stated, for the steps of a transfer (none of which is a reset or
\* the leaving of the page): a step that does not end in error or expired
\* leaves the receiver's channel, transport, room id and countdown as they
\* were and starts no bootstrap attempt.
C24_TransferLeavesConnection ==
    [][ computer'.status \notin {"error", "expired"} =>
            /\ computer'.channelRef = computer.channelRef
            /\ computer'.pcRef = computer.pcRef
            /\ computer'.pcClosed = computer.pcClosed
            /\ computer'.newRoomId = computer.newRoomId
            /\ computer'.countdownRef = computer.countdownRef
            /\ computer'.secondsLeft = computer.secondsLeft
            /\ computer'.pc = computer.pc ]_vars

\* sendFile is inside waitForBufferedLow, its promise pending
InWaitForBufferedLow(p) == p.sf \notin {"idle", "slice", "yield"}

\* C26: every call of waitForBufferedLow that has suspended and is no
\* longer pending has resolved exactly once; a pending one whose
\* bufferedAmount is at or below the 4 MiB low-water mark resolves, also
\* after the 2000 ms timeout has removed the listener of the
\* low-threshold event; and the interval resolves it only with the amount
\* at or below the mark.
C26_SuspendedSenderResumes ==
    /\ [](phone.hResumes = phone.hWaits - (IF InWaitForBufferedLow(phone) THEN 1 ELSE 0))
    /\ [][(phone.sf = "polling" /\ phone'.sf # "polling")
              => IsLow(bufferedAmount(chan'.wire))]_vars
    /\ (InWaitForBufferedLow(phone) /\ IsLow(bufferedAmount(chan.wire)))
          ~> ~InWaitForBufferedLow(phone)

\* C26 witness: a sender whose wait outlived the 2000 ms timeout, was
\* resolved by the interval and has sent the rest of the file
C26_Witness ==
    /\ phone.hWatchdog /\ phone.hWaits = 1 /\ phone.hResumes = 1
    /\ phone.hFinished

\* C28 as stated: once sendFile has sent every frame and done and closed
\* the channel, the sender is completed with no error, in every later state.
C28_SenderStaysCompleted ==
    phone.hFinished => (phone.status = "completed" /\ phone.error = "")

(***************************************************************************)
(* Properties of the bootstrap.                                            *)
(***************************************************************************)

\* C13: a connect on the phone with a room code that fails isValidRoomId
\* ends in error and, in doing so, sends no request to the relay and
\* creates neither a peer connection nor an abort controller.
C13_InvalidCodeConnect ==
    [][ \A id \in TypedCodes :
          (~isValidRoomId(id) /\ PhoneConnect(id))
             => /\ phone'.status = "error"
                /\ phone'.error = "Enter a valid 6 character room code."
                /\ phone'.pcRef = phone.pcRef /\ ~phone'.pcRef
                /\ phone'.abortRef = phone.abortRef /\ ~phone'.abortRef
                /\ phone'.pc = "idle"
                /\ reqs' = reqs /\ kv' = kv ]_vars

\* C13 witness: the phone in error over the code ABC while the computer's
\* room is open, with no request of the phone at the relay
C13_Witness ==
    /\ phone.status = "error"
    /\ phone.error = "Enter a valid 6 character room code."
    /\ phone.roomInput = <<"A", "B", "C">>
    /\ ~phone.pcRef /\ ~phone.abortRef
    /\ computer.status = "connecting"
    /\ \A s \in Slots : reqs[s].client # "phone"

\* a step in which the page takes a 404 response to one of its requests
\* off the relay
TakesNotFound(s, client) ==
    /\ ResponseFor(s, client) /\ reqs[s].resp.status = 404
    /\ reqs'[s] = IdleReq

\* C14 as stated: a side that receives 404 for a poll or for the publish
\* of its description is in expired after it, and its connect has ended.
C14_NotFoundRoutesToExpired ==
    [][ \A s \in Slots :
          /\ TakesNotFound(s, "computer")
                => computer'.status = "expired" /\ computer'.pc = "done"
          /\ TakesNotFound(s, "phone")
                => phone'.status = "expired" /\ phone'.pc = "done" ]_vars

\* C15 as stated: while the computer's room has had no answer published
\* and nobody has reset the page, the computer is never in error, and it is
\* in expired once its countdown has reached zero.
C15_ExpiryScenario ==
    (/\ computer.newRoomId # <<>>
     /\ written[computer.newRoomId]["answer"] = NotWritten
     /\ ~computer.hTornDown)
        => /\ computer.status # "error"
           /\ computer.secondsLeft = 0 => computer.status = "expired"

\* the step in which the countdown reaches zero
CountdownExpires ==
    /\ CountdownRunning(computer) /\ computer.secondsLeft <= 1
    /\ computer'.secondsLeft = 0

\* a step in which a request of the given page enters the relay
Sends(client) ==
    \E s \in Slots : reqs'[s].client = client /\ reqs[s].client # client

\* a step in which the given page takes a response off the relay
Takes(client) ==
    \E s \in Slots : ResponseFor(s, client) /\ reqs'[s] = IdleReq

\* C16: in the step in which the countdown reaches zero, whatever the
\* store holds and wherever connect stands, the status becomes expired,
\* the controller of a running polling loop is aborted, and the peer
\* connection and its channel are closed; an aborted loop sends no further
\* poll and takes no response.
C16_CountdownExpiry ==
    [][ /\ CountdownExpires
           => /\ computer'.status = "expired"
              /\ computer.abortRef => computer'.aborted
              /\ computer.pcRef => computer'.pcClosed
              /\ chan'.readyState \notin {"connecting", "open", "closing"}
              /\ ~CountdownRunning(computer')
        /\ computer.aborted => ~Sends("computer") /\ ~Takes("computer") ]_vars

\* C16 witness: the countdown has ended during the polling loop with the
\* room's exists marker still live in the store: expired, the loop
\* unwound, the peer connection closed
C16_Witness ==
    /\ computer.status = "expired" /\ computer.secondsLeft = 0
    /\ computer.aborted /\ computer.pc = "done" /\ computer.pcClosed
    /\ chan.readyState = "closed"
    /\ kv[computer.newRoomId]["exists"].ttl > 0
    /\ computer.polls > 0

\* C17: when the signal of an attempt has fired, during a poll request or
\* during the delay between polls, the polling loop ends without touching
\* the status or the error message, on the computer and on the phone.
C17_CancelIsSilent ==
    [][ /\ (computer.aborted /\ computer.pc \in {"poll", "awaitPoll"}
              /\ computer'.pc # computer.pc)
           => /\ computer'.pc = "done"
              /\ computer'.status = computer.status
              /\ computer'.error = computer.error
        /\ (phone.aborted /\ phone.pc \in {"poll", "awaitPoll"}
              /\ phone'.pc # phone.pc)
           => /\ phone'.pc = "done"
              /\ phone'.status = phone.status
              /\ phone'.error = phone.error ]_vars

\* C17 witness: the computer's loop was cancelled by the countdown during a
\* poll request and the phone's by its teardown during the delay after a
\* poll; the computer is expired, the phone still connecting, no error
\* message on either
C17_Witness ==
    /\ computer.hUnwound = "awaitPoll" /\ computer.pc = "done"
    /\ computer.status = "expired" /\ computer.error = ""
    /\ phone.hUnwound = "poll" /\ phone.polls > 0 /\ phone.pc = "done"
    /\ phone.status = "connecting" /\ phone.error = ""

InLoop(c) == c.pc \in {"poll", "awaitPoll"}

\* a step in which the page takes a poll response that carries the
\* description under the given role
TakesDescription(client, role) ==
    \E s \in Slots : /\ ResponseFor(s, client) /\ reqs'[s] = IdleReq
                     /\ reqs[s].resp.status = 200 /\ ~Falsy(reqs[s].resp[role])

\* C18: a polling loop ends, and it ends in one of five ways: the awaited
\* description has come, the relay answered 404 (expired), the relay
\* failed (error), the signal was aborted, or the deadline has passed, in
\* which case the status is error; no poll is sent once the deadline has
\* passed.
C18_PollingTerminates ==
    /\ [][ /\ (InLoop(computer) /\ ~InLoop(computer'))
              => \/ TakesDescription("computer", "answer")
                 \/ \E s \in Slots : TakesNotFound(s, "computer")
                                        /\ computer'.status = "expired"
                 \/ /\ Takes("computer") /\ computer'.status = "error"
                    /\ computer'.error = "Unable to check room status."
                 \/ computer.aborted
                 \/ /\ computer'.polls = MaxPolls /\ computer'.status = "error"
                    /\ computer'.error = "Connection timed out. Please try again."
           /\ (InLoop(phone) /\ ~InLoop(phone'))
              => \/ TakesDescription("phone", "offer")
                 \/ \E s \in Slots : TakesNotFound(s, "phone")
                                        /\ phone'.status = "expired"
                 \/ /\ Takes("phone") /\ phone'.status = "error"
                    /\ phone'.error = "Unable to check room."
                 \/ phone.aborted
                 \/ /\ phone'.polls = MaxPolls /\ phone'.status = "error"
                    /\ phone'.error = "Room did not respond in time. Try again."
           /\ (Sends("computer") /\ InLoop(computer)) => computer.polls < MaxPolls
           /\ (Sends("phone") /\ InLoop(phone)) => phone.polls < MaxPolls ]_vars
    /\ InLoop(computer) ~> ~InLoop(computer)
    /\ InLoop(phone) ~> ~InLoop(phone)

\* C18 witness: both loops have ended on their deadline
C18_Witness ==
    /\ computer.polls = MaxPolls /\ computer.pc = "done"
    /\ computer.error = "Connection timed out. Please try again."
    /\ phone.polls = MaxPolls /\ phone.pc = "done"
    /\ phone.error = "Room did not respond in time. Try again."

\* C19: in every state, a second cleanup changes nothing that the first
\* has not: on the computer the controller, channel, peer connection and
\* countdown references are cleared, the chunks in memory dropped and the
\* byte counter zero after one call as after two; likewise on the phone;
\* and closing a closed channel leaves it closed.
C19_CleanupIdempotent ==
    LET c1 == cleanup(computer)
        p1 == phoneCleanup(phone)
        ch1 == closeChannel(chan, TRUE)
    IN  /\ cleanup(c1) = c1
        /\ ~c1.abortRef /\ ~c1.channelRef /\ ~c1.pcRef /\ ~c1.countdownRef
        /\ c1.chunksRef = <<>> /\ c1.bytesReceived = 0
        /\ ~CountdownRunning(c1)
        /\ phoneCleanup(p1) = p1
        /\ ~p1.abortRef /\ ~p1.channelRef /\ ~p1.pcRef /\ p1.bytesSent = 0
        /\ closeChannel(ch1, TRUE) = ch1

\* C19 witness: both pages torn down in the middle of an attempt, with a
\* controller to abort and a peer connection to close on either
C19_Witness ==
    /\ computer.hTornDown /\ computer.aborted /\ computer.pcClosed
    /\ ~computer.abortRef /\ ~computer.pcRef /\ ~computer.countdownRef
    /\ phone.hTornDown /\ phone.aborted
    /\ ~phone.abortRef /\ ~phone.pcRef /\ ~phone.channelRef
    /\ chan.readyState = "closed"

\* C20 as stated: once a page has been torn down (cleanup or reset), the
\* attempt that was torn down sends no request, creates no peer
\* connection, abort controller or countdown, and changes neither the
\* status nor the error message (a further reset, and a new connect by
\* the user, apart).
C20_NothingActsAfterTeardown ==
    [][ /\ (phone.hTornDown /\ phone'.hTornDown)
           => /\ ~Sends("phone")
              /\ ~phone'.pcRef /\ ~phone'.abortRef /\ ~phone'.channelRef
              /\ \/ phone'.status = phone.status /\ phone'.error = phone.error
                 \/ phone'.status = "idle" /\ phone'.error = ""
        /\ computer.hTornDown
           => /\ ~Sends("computer")
              /\ ~computer'.pcRef /\ ~computer'.abortRef
              /\ ~CountdownRunning(computer')
              /\ \/ computer'.status = computer.status
                    /\ computer'.error = computer.error
                 \/ computer'.status = "idle" /\ computer'.error = "" ]_vars

TerminalStatuses == {"error", "expired"}

\* the peer connection a page's ref holds has not been closed
ComputerTransportOpen(c) == c.pcRef /\ ~c.pcClosed
PhoneTransportOpen(p) == p.pcRef
\* the channel a page's ref holds has not been closed
ChannelOpenAt(page, ch) == page.channelRef /\ ch.readyState # "closed"

\* C23 as stated: in every step in which a side's status becomes error or
\* expired, that side is left with its transport object and its channel
\* closed, and the computer with its countdown timer cleared.
C23_TerminalStatusClosesTransport ==
    [][ /\ (computer.status \notin TerminalStatuses /\ computer'.status \in TerminalStatuses)
            => /\ ~ComputerTransportOpen(computer')
               /\ ~ChannelOpenAt(computer', chan')
               /\ ~CountdownRunning(computer')
        /\ (phone.status \notin TerminalStatuses /\ phone'.status \in TerminalStatuses)
            => /\ ~PhoneTransportOpen(phone')
               /\ ~ChannelOpenAt(phone', chan') ]_vars

\* C25 as stated: a step that changes a status of error or expired is a
\* reset, or on the phone a new connect.
C25_TerminalUntilUserActs ==
    [][ /\ (computer.status \in TerminalStatuses /\ computer'.status # computer.status)
            => ComputerReset
        /\ (phone.status \in TerminalStatuses /\ phone'.status # phone.status)
            => (PhoneReset \/ \E id \in RequestIds : PhoneConnect(id)) ]_vars

\* the polling loop of a page is running with its signal not fired
LoopRunning(c) == c.pc \in {"poll", "awaitPoll"} /\ ~c.aborted

\* C27 as stated: no page has an open transport besides the one its ref
\* holds, and a polling loop that is running is the loop of the controller
\* the page's ref holds.
C27_OneTransportOneLoop ==
    /\ ~phone.orphanPc
    /\ LoopRunning(phone) => phone.abortRef
    /\ LoopRunning(computer) => computer.abortRef

\* the computer has applied the phone's answer to a peer connection that
\* is still open
AnswerApplied(c) == c.remote # JNull /\ ComputerTransportOpen(c)

\* C29 as stated: once the answer is applied, the step in which the
\* countdown reaches zero closes nothing and leaves the status as it was.
C29_CountdownSparesTransfer ==
    [][ (AnswerApplied(computer) /\ computer.secondsLeft > 0 /\ computer'.secondsLeft = 0)
            => /\ computer'.status = computer.status
               /\ ComputerTransportOpen(computer')
               /\ chan' = chan ]_vars

\* C31 as stated: after a reset of the computer from error or expired a
\* new bootstrap attempt begins: the status leaves idle with connect
\* asking the relay for a new room.
C31_ResetStartsNewAttempt ==
    (computer.status = "idle" /\ computer.hTornDown)
        ~> (computer.status = "starting" /\ computer.pc = "create")

=============================================================================
